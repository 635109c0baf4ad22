-------------------------- MODULE TypeTable_proofs --------------------------
(***************************************************************************)
(* Proofs about TypeTable.  The numbers a type, symbol or signature is     *)
(* given are unique because its string is: by induction over the order in  *)
(* which they are issued, the parts of two equal items have equal numbers. *)
(* The call stack carries this through nested calls: what a frame has got  *)
(* so far has been issued for the calls it has made.                       *)
(*                                                                         *)
(* The properties about contexts say that a set of items or numbers is     *)
(* closed: the inductive invariants have the sets as parameters, and what  *)
(* Closure computes is the smallest one.  What has no number at some depth *)
(* is the smallest set with the rules of the code, without recursion.      *)
(***************************************************************************)
EXTENDS TypeTable, FiniteSetTheorems, WellFoundedInduction, TLAPS

\* The number v stands for the string of x, over numbers issued for its parts.
Describes(v, x) ==
  /\ v \in Ref /\ v[1] = KindOf(x) /\ v[2] < Len(ids[v[1]])
  /\ StringOf(v).tag = Tag[x]
  /\ Len(StringOf(v).parts) = Len(Parts[x])
  /\ \A i \in 1 .. Len(Parts[x]) :
       IF StringOf(v).parts[i] = None THEN <<x, i>> \in Optional
       ELSE <<Parts[x][i], StringOf(v).parts[i]>> \in issued

Injective == \A k \in Kind : \A m, n \in DOMAIN ids[k] : ids[k][m] = ids[k][n] => m = n

IssuedOK == \A x \in Item, v \in Ref : <<x, v>> \in issued => Describes(v, x)

Functional == \A x \in Firm, v, w \in Ref : <<x, v>> \in issued /\ <<x, w>> \in issued => v = w

CachedOK == \A y \in Symbol : cached[y] # None => Describes(cached[y], y)

\* A frame has the answers to its first calls; it is asking for the next one when
\* another frame is above it.
FrameOK(j) ==
  /\ Len(stack[j].got) <= Len(Calls(stack[j]))
  /\ stack[j].does = "string" =>
       \A i \in DOMAIN stack[j].got :
         stack[j].got[i] # None => <<Parts[stack[j].item][i], stack[j].got[i]>> \in issued
  /\ stack[j].does = "after" => Describes(stack[j].ref, stack[j].item)
  /\ stack[j].does = "members" => stack[j].item \in Type /\ stack[j].ref \in Ref
  /\ j < Len(stack) =>
       /\ stack[j + 1].does # "members"
       /\ Len(stack[j].got) < Len(Calls(stack[j]))
       /\ stack[j + 1].item = Calls(stack[j])[Len(stack[j].got) + 1]

StackOK ==
  /\ \A j \in DOMAIN stack : FrameOK(j)
  /\ phase = "build" => stack # <<>> /\ stack[1].item \in Type /\ stack[1].does # "members"

Inv == TypeOK /\ Injective /\ IssuedOK /\ Functional /\ CachedOK /\ StackOK /\ PendingIsQueued

-----------------------------------------------------------------------------
(* The constants.                                                          *)

LEMMA KindOfItem ==
  ASSUME NEW x \in Item
  PROVE  /\ KindOf(x) \in Kind
         /\ KindOf(x) = "type" <=> x \in Type
         /\ KindOf(x) = "symbol" <=> x \in Symbol
BY TypeTableAssumption DEF KindOf, Kind, Item

LEMMA CallsAreItems ==
  ASSUME NEW f \in Frame, f.does = "members" => f.item \in Type
  PROVE  Calls(f) \in Seq(Item \cup {None})
BY TypeTableAssumption DEF Calls, Frame, Item

LEMMA TopOfStack ==
  ASSUME TypeOK, stack # <<>>
  PROVE  /\ Len(stack) \in Nat /\ Len(stack) >= 1 /\ Len(stack) \in DOMAIN stack
         /\ Top \in Frame /\ Top = stack[Len(stack)]
         /\ Below \in Seq(Frame) /\ Len(Below) = Len(stack) - 1
         /\ \A j \in 1 .. Len(stack) - 1 : Below[j] = stack[j]
<1>1. stack \in Seq(Frame)
  BY DEF TypeOK
<1>2. Len(stack) \in Nat /\ Len(stack) >= 1 /\ DOMAIN stack = 1 .. Len(stack)
  BY <1>1
<1>3. Top \in Frame /\ Top = stack[Len(stack)]
  BY <1>1, <1>2 DEF Top
<1>4. Below \in Seq(Frame) /\ Len(Below) = Len(stack) - 1
  BY <1>1, <1>2 DEF Below
<1>5. \A j \in 1 .. Len(stack) - 1 : Below[j] = stack[j]
  BY <1>1, <1>2 DEF Below
<1> QED BY <1>2, <1>3, <1>4, <1>5

-----------------------------------------------------------------------------
(* Strings and numbers.                                                    *)

\* An item that is always described the same way has one number: the numbers of its
\* parts are equal, so are the strings, and a string is in the table once.
LEMMA OneNumber ==
  ASSUME TypeOK, Injective, Functional,
         NEW x \in Firm, NEW v, NEW w, Describes(v, x), Describes(w, x)
  PROVE  v = w
<1> DEFINE s == StringOf(v)
           t == StringOf(w)
<1>1. x \in Item /\ v \in Ref /\ w \in Ref /\ v[1] = w[1] /\ v[1] \in Kind
  BY TypeTableAssumption DEF Describes, Ref
<1>2. /\ v[2] + 1 \in DOMAIN ids[v[1]] /\ w[2] + 1 \in DOMAIN ids[v[1]]
      /\ s = ids[v[1]][v[2] + 1] /\ t = ids[v[1]][w[2] + 1]
      /\ s \in Content /\ t \in Content
  BY <1>1 DEF Describes, StringOf, TypeOK, Ref
<1>3. Parts[x] \in Seq(Item \cup {None})
  BY <1>1, TypeTableAssumption
<1>4. ASSUME NEW i \in 1 .. Len(Parts[x]) PROVE s.parts[i] = t.parts[i]
  <2>1. <<x, i>> \notin Optional /\ Parts[x][i] \in Firm \cup {None}
    BY <1>3, <1>4, TypeTableAssumption
  <2>2. s.parts[i] # None /\ <<Parts[x][i], s.parts[i]>> \in issued
    BY <1>4, <2>1 DEF Describes
  <2>3. t.parts[i] # None /\ <<Parts[x][i], t.parts[i]>> \in issued
    BY <1>4, <2>1 DEF Describes
  <2>4. Parts[x][i] \in Item /\ s.parts[i] \in Ref /\ t.parts[i] \in Ref
    BY <2>2, <2>3 DEF TypeOK
  <2>5. Parts[x][i] \in Firm
    BY <2>1, <2>4, TypeTableAssumption
  <2> QED BY <2>2, <2>3, <2>4, <2>5 DEF Functional
<1>5. s.parts = t.parts
  <2>1. /\ s.parts \in Seq(Ref \cup {None}) /\ t.parts \in Seq(Ref \cup {None})
        /\ Len(s.parts) = Len(Parts[x]) /\ Len(t.parts) = Len(Parts[x])
    BY <1>2 DEF Content, Describes
  <2> QED BY <2>1, <1>4
<1>6. s = t
  BY <1>2, <1>5 DEF Content, Describes
<1>7. v[2] + 1 = w[2] + 1
  BY <1>1, <1>2, <1>6 DEF Injective
<1> QED BY <1>1, <1>7 DEF Ref

\* More issued numbers and longer tables leave a description as it is.
LEMMA DescriptionStays ==
  ASSUME TypeOK, NEW v, NEW x \in Item, Describes(v, x),
         issued \subseteq issued',
         \A k \in Kind : /\ Len(ids[k]) <= Len(ids'[k]) /\ Len(ids'[k]) \in Nat
                         /\ \A n \in 1 .. Len(ids[k]) : ids'[k][n] = ids[k][n]
  PROVE  Describes(v, x)'
<1>1. v \in Ref /\ v[1] \in Kind /\ v[2] \in Nat /\ v[2] < Len(ids[v[1]])
  BY DEF Describes, Ref
<1>2. Len(ids[v[1]]) \in Nat
  BY <1>1 DEF TypeOK
<1>3. StringOf(v)' = StringOf(v) /\ v[2] < Len(ids'[v[1]])
  BY <1>1, <1>2 DEF StringOf
<1> QED BY <1>1, <1>3 DEF Describes

\* What a call returns keeps the numbers unique.
LEMMA IssueKeeps ==
  ASSUME TypeOK, Injective, IssuedOK, Functional, UNCHANGED ids,
         NEW x \in Item, NEW v \in Ref \cup {None}, v = None \/ Describes(v, x),
         issued' = IF v = None THEN issued ELSE issued \cup {<<x, v>>}
  PROVE  IssuedOK' /\ Functional' /\ Injective' /\ issued' \subseteq Item \X Ref
<1>1. issued \subseteq issued' /\ issued' \subseteq Item \X Ref
  BY DEF TypeOK
<1>2. ASSUME NEW z \in Item, NEW w, Describes(w, z) PROVE Describes(w, z)'
  <2>1. \A k \in Kind : /\ Len(ids[k]) <= Len(ids'[k]) /\ Len(ids'[k]) \in Nat
                        /\ \A n \in 1 .. Len(ids[k]) : ids'[k][n] = ids[k][n]
    BY DEF TypeOK
  <2> QED BY <1>1, <1>2, <2>1, DescriptionStays
<1>3. IssuedOK'
  <2> SUFFICES ASSUME NEW z \in Item, NEW w \in Ref, <<z, w>> \in issued'
               PROVE  Describes(w, z)'
    BY DEF IssuedOK
  <2>1. Describes(w, z)
    BY DEF IssuedOK
  <2> QED BY <2>1, <1>2
<1>4. Functional'
  <2> SUFFICES ASSUME NEW z \in Firm, NEW a \in Ref, NEW b \in Ref,
                      <<z, a>> \in issued', <<z, b>> \in issued'
               PROVE  a = b
    BY DEF Functional
  <2>1. z \in Item
    BY TypeTableAssumption
  <2>2. Describes(a, z) /\ Describes(b, z)
    BY <2>1 DEF IssuedOK
  <2> QED BY <2>2, OneNumber
<1> QED BY <1>1, <1>3, <1>4 DEF Injective

LEMMA IdsStay ==
  ASSUME TypeOK, UNCHANGED ids, issued \subseteq issued',
         NEW x \in Item, NEW v, Describes(v, x)
  PROVE  Describes(v, x)'
<1>1. \A k \in Kind : /\ Len(ids[k]) <= Len(ids'[k]) /\ Len(ids'[k]) \in Nat
                      /\ \A n \in 1 .. Len(ids[k]) : ids'[k][n] = ids[k][n]
  BY DEF TypeOK
<1> QED BY <1>1, DescriptionStays

-----------------------------------------------------------------------------
(* The call stack.                                                         *)

\* A frame stays as it is when numbers are issued and strings are added.
LEMMA FrameStays ==
  ASSUME TypeOK, NEW j \in DOMAIN stack, FrameOK(j), issued \subseteq issued',
         \A x \in Item : \A v \in Ref : Describes(v, x) => Describes(v, x)',
         j \in DOMAIN stack', stack'[j] = stack[j], Len(stack') \in Nat,
         j < Len(stack') =>
           /\ j < Len(stack)
           /\ stack'[j + 1].does # "members" /\ stack'[j + 1].item = stack[j + 1].item
  PROVE  FrameOK(j)'
<1>1. stack[j] \in Frame
  BY DEF TypeOK
<1>2. Calls(stack'[j]) = Calls(stack[j])
  BY DEF Calls
<1>3. stack[j].does = "after" => Describes(stack[j].ref, stack[j].item)'
  <2>1. stack[j].does = "after" => Describes(stack[j].ref, stack[j].item)
    BY DEF FrameOK
  <2>2. stack[j].does = "after" => stack[j].ref \in Ref /\ stack[j].item \in Item
    BY <1>1, <2>1 DEF Describes, Frame
  <2> QED BY <2>1, <2>2
<1>4. Calls(stack[j])' = Calls(stack[j])
  BY <1>2 DEF Calls
<1> QED BY <1>1, <1>2, <1>3, <1>4 DEF FrameOK

\* The frame that is given v, the answer to its next call.
LEMMA FrameReceives ==
  ASSUME TypeOK, NEW j \in DOMAIN stack, FrameOK(j), issued \subseteq issued',
         \A x \in Item : \A w \in Ref : Describes(w, x) => Describes(w, x)',
         NEW v, v \in Ref \cup {None}, Len(stack[j].got) < Len(Calls(stack[j])),
         v # None => <<Calls(stack[j])[Len(stack[j].got) + 1], v>> \in issued',
         j \in DOMAIN stack', Len(stack') = j,
         stack'[j] = [stack[j] EXCEPT !.got = Append(stack[j].got, v)]
  PROVE  FrameOK(j)'
<1>0. stack[j] \in Frame
  BY DEF TypeOK
<1>1. /\ stack[j] \in Frame /\ stack[j].got \in Seq(Ref \cup {None})
      /\ Len(stack[j].got) \in Nat
  BY <1>0 DEF Frame
<1>2. /\ stack'[j].does = stack[j].does /\ stack'[j].item = stack[j].item
      /\ stack'[j].ref = stack[j].ref /\ stack'[j].got = Append(stack[j].got, v)
  BY <1>1 DEF Frame
<1>3. Calls(stack[j])' = Calls(stack[j])
  BY <1>2 DEF Calls
<1>4. Calls(stack[j]) \in Seq(Item \cup {None})
  <2>1. stack[j].does = "members" => stack[j].item \in Type
    BY DEF FrameOK
  <2> QED BY <1>1, <2>1, CallsAreItems
<1>5. Len(stack'[j].got) <= Len(Calls(stack[j])')
  BY <1>1, <1>2, <1>3, <1>4
<1>6. ASSUME stack[j].does = "string", NEW i \in DOMAIN stack'[j].got, stack'[j].got[i] # None
      PROVE  <<Parts[stack'[j].item][i], stack'[j].got[i]>> \in issued'
  <2>0. Calls(stack[j]) = Parts[stack[j].item]
    BY <1>6 DEF Calls
  <2>1. CASE i = Len(stack[j].got) + 1
    <3>1. stack'[j].got[i] = v
      BY <2>1, <1>1, <1>2
    <3> QED BY <1>6, <2>0, <2>1, <3>1, <1>2
  <2>2. CASE i # Len(stack[j].got) + 1
    <3>1. i \in DOMAIN stack[j].got /\ stack'[j].got[i] = stack[j].got[i]
      BY <2>2, <1>1, <1>2, <1>6
    <3> QED BY <1>6, <3>1, <1>2 DEF FrameOK
  <2> QED BY <2>1, <2>2
<1>7. stack[j].does = "after" => Describes(stack[j].ref, stack[j].item)'
  <2>1. stack[j].does = "after" => Describes(stack[j].ref, stack[j].item)
    BY DEF FrameOK
  <2>2. stack[j].does = "after" => stack[j].ref \in Ref /\ stack[j].item \in Item
    BY <1>1, <2>1 DEF Describes, Frame
  <2> QED BY <2>1, <2>2, <1>2
<1>8. stack[j].does = "members" => stack[j].item \in Type /\ stack[j].ref \in Ref
  BY DEF FrameOK
<1> QED BY <1>2, <1>5, <1>6, <1>7, <1>8 DEF FrameOK

\* Where the frames below the last one are as before, so is what they are waiting for.
LEMMA OthersStay ==
  ASSUME TypeOK, StackOK, issued \subseteq issued',
         \A x \in Item : \A v \in Ref : Describes(v, x) => Describes(v, x)',
         NEW n \in Nat, n <= Len(stack), stack' \in Seq(Frame), Len(stack') = n,
         \A j \in 1 .. n - 1 : stack'[j] = stack[j],
         n > 0 => stack'[n].item = stack[n].item,
         n > 1 => stack'[n].does # "members"
  PROVE  \A j \in 1 .. n - 1 : FrameOK(j)'
<1> SUFFICES ASSUME NEW j \in 1 .. n - 1 PROVE FrameOK(j)'
  OBVIOUS
<1>1. /\ stack \in Seq(Frame) /\ Len(stack) \in Nat /\ j \in DOMAIN stack /\ j + 1 \in DOMAIN stack
      /\ j \in DOMAIN stack' /\ j < Len(stack)
  BY DEF TypeOK
<1>2. FrameOK(j)
  BY <1>1 DEF StackOK
<1>3. stack'[j] = stack[j]
  OBVIOUS
<1>4. stack'[j + 1].item = stack[j + 1].item /\ stack'[j + 1].does # "members"
  <2>1. CASE j + 1 = n
    BY <2>1
  <2>2. CASE j + 1 # n
    <3>1. j + 1 \in 1 .. n - 1
      BY <2>2
    <3>2. stack'[j + 1] = stack[j + 1]
      BY <3>1
    <3> QED BY <1>1, <1>2, <3>2 DEF FrameOK
  <2> QED BY <2>1, <2>2
<1> QED BY <1>1, <1>2, <1>3, <1>4, FrameStays

\* A frame is given v: it is the last one that is left.
LEMMA ReceiveKeeps ==
  ASSUME TypeOK, StackOK, issued \subseteq issued',
         \A x \in Item : \A w \in Ref : Describes(w, x) => Describes(w, x)',
         NEW n \in Nat, n >= 1, n <= Len(stack),
         NEW frames \in Seq(Frame), Len(frames) = n, \A j \in 1 .. n : frames[j] = stack[j],
         NEW v, v \in Ref \cup {None}, Len(stack[n].got) < Len(Calls(stack[n])),
         v # None => <<Calls(stack[n])[Len(stack[n].got) + 1], v>> \in issued',
         Receive(frames, v)
  PROVE  /\ stack' \in Seq(Frame) /\ rows' \in Seq(Row) /\ stack' # <<>>
         /\ stack'[1].item = stack[1].item /\ stack'[1].does = stack[1].does
         /\ \A j \in DOMAIN stack' : FrameOK(j)'
<1>1. /\ stack \in Seq(Frame) /\ Len(stack) \in Nat /\ n \in DOMAIN stack /\ stack[n] \in Frame
      /\ frames[n] = stack[n] /\ FrameOK(n)
  <2>1. stack \in Seq(Frame) /\ Len(stack) \in Nat /\ n \in DOMAIN stack
    BY DEF TypeOK
  <2>2. frames[n] = stack[n] /\ stack[n] \in Frame
    BY <2>1
  <2> QED BY <2>1, <2>2 DEF StackOK
<1>2. /\ stack' = [frames EXCEPT ![n] = [stack[n] EXCEPT !.got = Append(stack[n].got, v)]]
      /\ rows' = IF stack[n].does = "string" \/ v = None THEN rows
                 ELSE Append(rows, [does |-> stack[n].does, from |-> stack[n].ref,
                                    index |-> Len(stack[n].got) + 1, to |-> v])
  BY <1>1 DEF Receive
<1>3. stack[n].got \in Seq(Ref \cup {None}) /\ Len(stack[n].got) \in Nat
  BY <1>1 DEF Frame
<1>4. [stack[n] EXCEPT !.got = Append(stack[n].got, v)] \in Frame
  <2>1. Append(stack[n].got, v) \in Seq(Ref \cup {None})
    BY <1>3
  <2> QED BY <1>1, <2>1 DEF Frame
<1>5. /\ stack' \in Seq(Frame) /\ Len(stack') = n /\ DOMAIN stack' = 1 .. n
      /\ stack'[n] = [stack[n] EXCEPT !.got = Append(stack[n].got, v)]
      /\ \A j \in 1 .. n - 1 : stack'[j] = stack[j]
  BY <1>2, <1>4
<1>6. stack'[n].item = stack[n].item /\ stack'[n].does = stack[n].does
  BY <1>1, <1>5 DEF Frame
<1>7. FrameOK(n)'
  <2>1. n \in DOMAIN stack' /\ Len(stack') = n
    BY <1>5
  <2>2. stack'[n] = [stack[n] EXCEPT !.got = Append(stack[n].got, v)]
    BY <1>5
  <2> QED BY <1>1, <2>1, <2>2, FrameReceives
<1>8. n > 1 => stack'[n].does # "members"
  <2> SUFFICES ASSUME n > 1 PROVE stack[n].does # "members"
    BY <1>6
  <2>1. n - 1 \in DOMAIN stack /\ (n - 1) + 1 = n /\ n - 1 < Len(stack)
    BY <1>1
  <2>2. FrameOK(n - 1)
    BY <2>1 DEF StackOK
  <2>3. stack[(n - 1) + 1].does # "members"
    BY <2>1, <2>2 DEF FrameOK
  <2> QED BY <2>1, <2>3
<1>9. \A j \in 1 .. n - 1 : FrameOK(j)'
  BY <1>5, <1>6, <1>8, OthersStay
<1>10. \A j \in DOMAIN stack' : FrameOK(j)'
  BY <1>5, <1>7, <1>9
<1>11. stack'[1].item = stack[1].item /\ stack'[1].does = stack[1].does /\ stack' # <<>>
  <2>1. stack'[1].item = stack[1].item /\ stack'[1].does = stack[1].does
    <3>1. CASE n = 1
      BY <3>1, <1>6
    <3>2. CASE n # 1
      <4>1. 1 \in 1 .. n - 1
        BY <3>2
      <4> QED BY <4>1, <1>5
    <3> QED BY <3>1, <3>2
  <2>2. stack' # <<>>
    BY <1>5
  <2> QED BY <2>1, <2>2
<1>12. rows' \in Seq(Row)
  <2>1. CASE stack[n].does = "string" \/ v = None
    BY <1>2, <2>1 DEF TypeOK
  <2>2. CASE stack[n].does # "string" /\ v # None
    <3>1. stack[n].ref \in Ref /\ stack[n].does \in {"after", "members"}
      BY <1>1, <2>2 DEF FrameOK, Describes, Frame
    <3>2. [does |-> stack[n].does, from |-> stack[n].ref, index |-> Len(stack[n].got) + 1,
           to |-> v] \in Row
      BY <1>3, <2>2, <3>1 DEF Row
    <3> QED BY <1>2, <2>2, <3>2 DEF TypeOK
  <2> QED BY <2>1, <2>2
<1> QED BY <1>5, <1>10, <1>11, <1>12

\* A call returns null, or a number that stands for what it was asked for.
LEMMA ReturnKeeps ==
  ASSUME Inv, stack # <<>>, Top.does # "members", UNCHANGED ids,
         NEW v, v \in Ref \cup {None}, v = None \/ Describes(v, Top.item), Return(v)
  PROVE  /\ Injective' /\ IssuedOK' /\ Functional' /\ StackOK'
         /\ issued' \subseteq Item \X Ref /\ built' \subseteq Ref
         /\ stack' \in Seq(Frame) /\ rows' \in Seq(Row)
         /\ phase' \in {"idle", "ask", "build", "iterate"}
         /\ \A x \in Item : \A w \in Ref : Describes(w, x) => Describes(w, x)'
<1> USE DEF Inv
<1>1. /\ Top \in Frame /\ Top.item \in Item /\ Top = stack[Len(stack)]
      /\ Len(stack) \in Nat /\ Len(stack) >= 1 /\ stack \in Seq(Frame)
      /\ Below \in Seq(Frame) /\ Len(Below) = Len(stack) - 1
      /\ \A j \in 1 .. Len(stack) - 1 : Below[j] = stack[j]
  BY TopOfStack DEF Frame, TypeOK
<1>2. /\ issued' = IF v = None THEN issued ELSE issued \cup {<<Top.item, v>>}
      /\ issued \subseteq issued'
  BY DEF Return
<1>3. IssuedOK' /\ Functional' /\ Injective' /\ issued' \subseteq Item \X Ref
  BY <1>1, <1>2, IssueKeeps
<1>4. \A x \in Item : \A w \in Ref : Describes(w, x) => Describes(w, x)'
  BY <1>2, IdsStay
<1>5. CASE Below # <<>>
  <2>1. PICK n \in Nat : n >= 1 /\ n = Len(Below) /\ n + 1 = Len(stack) /\ n \in DOMAIN stack
    BY <1>1, <1>5
  <2>2. FrameOK(n) /\ n < Len(stack) /\ stack[n + 1] = Top
    BY <1>1, <2>1 DEF StackOK
  <2>3. Len(stack[n].got) < Len(Calls(stack[n])) /\ Calls(stack[n])[Len(stack[n].got) + 1] = Top.item
    BY <2>2 DEF FrameOK
  <2>4. Receive(Below, v) /\ UNCHANGED <<phase, built>>
    BY <1>5 DEF Return
  <2>5. v # None => <<Calls(stack[n])[Len(stack[n].got) + 1], v>> \in issued'
    BY <1>2, <2>3
  <2>6. Len(Below) = n /\ n <= Len(stack) /\ \A j \in 1 .. n : Below[j] = stack[j]
    BY <1>1, <2>1
  <2>7. /\ stack' \in Seq(Frame) /\ rows' \in Seq(Row) /\ stack' # <<>>
        /\ stack'[1].item = stack[1].item /\ stack'[1].does = stack[1].does
        /\ \A j \in DOMAIN stack' : FrameOK(j)'
    <3> HIDE DEF Inv
    <3>1. TypeOK /\ StackOK
      BY DEF Inv
    <3> QED BY <3>1, <1>1, <1>2, <1>4, <2>1, <2>3, <2>4, <2>5, <2>6, ReceiveKeeps
  <2>8. StackOK'
    BY <2>4, <2>7 DEF StackOK
  <2> QED BY <1>3, <1>4, <2>4, <2>7, <2>8 DEF TypeOK
<1>6. CASE Below = <<>>
  <2>1. /\ stack' = <<>> /\ rows' = rows
        /\ phase' = IF phase = "build" THEN "iterate" ELSE "idle"
        /\ built' = IF phase = "build" /\ v # None THEN built \cup {v} ELSE built
    BY <1>6 DEF Return
  <2>2. Len(stack) = 1
    BY <1>1, <1>6
  <2>3. built' \subseteq Ref
    BY <1>1, <2>1, <2>2 DEF StackOK, TypeOK
  <2>4. StackOK'
    BY <2>1 DEF StackOK
  <2> QED BY <1>3, <1>4, <2>1, <2>3, <2>4 DEF TypeOK
<1> QED BY <1>5, <1>6

\* Where the tables are not touched.
LEMMA CachedStay ==
  ASSUME Inv, UNCHANGED cached,
         \A x \in Item : \A w \in Ref : Describes(w, x) => Describes(w, x)'
  PROVE  CachedOK'
<1> SUFFICES ASSUME NEW y \in Symbol, cached[y] # None PROVE Describes(cached[y], y)'
  BY DEF CachedOK
<1>1. Describes(cached[y], y) /\ cached[y] \in Ref /\ y \in Item
  BY DEF Inv, CachedOK, TypeOK, Item
<1> QED BY <1>1

LEMMA QueueStays ==
  ASSUME PendingIsQueued, UNCHANGED <<state, worklist>>
  PROVE  PendingIsQueued'
BY DEF PendingIsQueued, IsPending

-----------------------------------------------------------------------------
(* The steps.                                                              *)

LEMMA ReturnNullKeeps ==
  ASSUME Inv, ReturnNull
  PROVE  Inv'
<1>1. /\ stack # <<>> /\ Top.does # "members" /\ Return(None)
      /\ UNCHANGED <<ids, state, worklist, shallow, cached>>
  BY DEF ReturnNull, InString
<1>2. /\ Injective' /\ IssuedOK' /\ Functional' /\ StackOK'
      /\ issued' \subseteq Item \X Ref /\ built' \subseteq Ref
      /\ stack' \in Seq(Frame) /\ rows' \in Seq(Row)
      /\ phase' \in {"idle", "ask", "build", "iterate"}
      /\ \A x \in Item : \A w \in Ref : Describes(w, x) => Describes(w, x)'
  BY <1>1, ReturnKeeps
<1>3. CachedOK' /\ PendingIsQueued'
  BY <1>1, <1>2, CachedStay, QueueStays DEF Inv
<1> QED BY <1>1, <1>2, <1>3 DEF Inv, TypeOK

LEMMA ReturnCachedKeeps ==
  ASSUME Inv, ReturnCached
  PROVE  Inv'
<1>1. /\ stack # <<>> /\ Top.does # "members" /\ Return(cached[Top.item])
      /\ UNCHANGED <<ids, state, worklist, shallow, cached>>
      /\ Top.item \in Symbol /\ cached[Top.item] # None
  BY DEF ReturnCached, InString, HasId
<1>2. Describes(cached[Top.item], Top.item) /\ cached[Top.item] \in Ref \cup {None}
  BY <1>1 DEF Inv, CachedOK, TypeOK
<1>3. /\ Injective' /\ IssuedOK' /\ Functional' /\ StackOK'
      /\ issued' \subseteq Item \X Ref /\ built' \subseteq Ref
      /\ stack' \in Seq(Frame) /\ rows' \in Seq(Row)
      /\ phase' \in {"idle", "ask", "build", "iterate"}
      /\ \A x \in Item : \A w \in Ref : Describes(w, x) => Describes(w, x)'
  BY <1>1, <1>2, ReturnKeeps
<1>4. CachedOK' /\ PendingIsQueued'
  BY <1>1, <1>3, CachedStay, QueueStays DEF Inv
<1> QED BY <1>1, <1>3, <1>4 DEF Inv, TypeOK

LEMMA DiscardKeeps ==
  ASSUME Inv, Discard
  PROVE  Inv'
<1>1. /\ stack # <<>> /\ Top.does # "members" /\ Return(None)
      /\ UNCHANGED <<ids, state, worklist, shallow, cached>>
  BY DEF Discard, HasString, InString
<1>2. /\ Injective' /\ IssuedOK' /\ Functional' /\ StackOK'
      /\ issued' \subseteq Item \X Ref /\ built' \subseteq Ref
      /\ stack' \in Seq(Frame) /\ rows' \in Seq(Row)
      /\ phase' \in {"idle", "ask", "build", "iterate"}
      /\ \A x \in Item : \A w \in Ref : Describes(w, x) => Describes(w, x)'
  BY <1>1, ReturnKeeps
<1>3. CachedOK' /\ PendingIsQueued'
  BY <1>1, <1>2, CachedStay, QueueStays DEF Inv
<1> QED BY <1>1, <1>2, <1>3 DEF Inv, TypeOK

LEMMA ReturnIdKeeps ==
  ASSUME Inv, ReturnId
  PROVE  Inv'
<1>1. /\ stack # <<>> /\ Top.does = "after" /\ Return(Top.ref)
      /\ UNCHANGED <<ids, state, worklist, shallow, cached>>
  BY DEF ReturnId
<1>2. Describes(Top.ref, Top.item) /\ Top.ref \in Ref
  <2>1. FrameOK(Len(stack)) /\ Top = stack[Len(stack)]
    BY <1>1, TopOfStack DEF Inv, StackOK
  <2> QED BY <1>1, <2>1 DEF FrameOK, Describes
<1>3. /\ Injective' /\ IssuedOK' /\ Functional' /\ StackOK'
      /\ issued' \subseteq Item \X Ref /\ built' \subseteq Ref
      /\ stack' \in Seq(Frame) /\ rows' \in Seq(Row)
      /\ phase' \in {"idle", "ask", "build", "iterate"}
      /\ \A x \in Item : \A w \in Ref : Describes(w, x) => Describes(w, x)'
  BY <1>1, <1>2, ReturnKeeps
<1>4. CachedOK' /\ PendingIsQueued'
  BY <1>1, <1>3, CachedStay, QueueStays DEF Inv
<1> QED BY <1>1, <1>3, <1>4 DEF Inv, TypeOK

LEMMA SameTables ==
  ASSUME UNCHANGED <<ids, issued>>
  PROVE  \A x \in Item : \A w \in Ref : Describes(w, x) => Describes(w, x)'
BY DEF Describes, StringOf

LEMMA CallKeeps ==
  ASSUME Inv, Call
  PROVE  Inv'
<1> DEFINE x == Calls(Top)[Len(Top.got) + 1]
<1>1. /\ stack # <<>> /\ Len(Top.got) < Len(Calls(Top))
      /\ IF x = None THEN Receive(stack, None)
         ELSE stack' = Append(stack, Called(x)) /\ UNCHANGED rows
      /\ UNCHANGED <<ids, state, worklist, shallow, cached, phase, issued, built>>
  BY DEF Call
<1>2. TypeOK /\ StackOK /\ PendingIsQueued
  BY DEF Inv
<1>3. PICK n \in Nat : /\ n >= 1 /\ n = Len(stack) /\ n \in DOMAIN stack /\ stack \in Seq(Frame)
                       /\ Top \in Frame /\ Top = stack[n] /\ FrameOK(n)
  BY <1>1, <1>2, TopOfStack DEF StackOK, TypeOK
<1>4. \A y \in Item : \A w \in Ref : Describes(w, y) => Describes(w, y)'
  BY <1>1, SameTables
<1>5. CASE x = None
  <2>1. \A j \in 1 .. n : stack[j] = stack[j]
    OBVIOUS
  <2>2. Len(stack[n].got) < Len(Calls(stack[n])) /\ Receive(stack, None)
    BY <1>1, <1>3, <1>5
  <2>3. issued \subseteq issued' /\ n <= Len(stack) /\ Len(stack) = n
    BY <1>1, <1>3
  <2>4. /\ stack' \in Seq(Frame) /\ rows' \in Seq(Row) /\ stack' # <<>>
        /\ stack'[1].item = stack[1].item /\ stack'[1].does = stack[1].does
        /\ \A j \in DOMAIN stack' : FrameOK(j)'
    BY <1>2, <1>3, <1>4, <2>1, <2>2, <2>3, ReceiveKeeps
  <2>5. StackOK'
    BY <1>1, <1>2, <2>4 DEF StackOK
  <2>6. Injective' /\ IssuedOK' /\ Functional' /\ CachedOK' /\ PendingIsQueued'
    <3>1. Injective' /\ Functional' /\ PendingIsQueued'
      BY <1>1, QueueStays DEF Inv, Injective, Functional
    <3>2. IssuedOK'
      BY <1>1, <1>4 DEF Inv, IssuedOK
    <3>3. CachedOK'
      BY <1>1, <1>4, CachedStay
    <3> QED BY <3>1, <3>2, <3>3
  <2> QED BY <1>1, <1>2, <2>4, <2>5, <2>6 DEF Inv, TypeOK
<1>6. CASE x # None
  <2>1. x \in Item
    <3>1. Top.does = "members" => Top.item \in Type
      BY <1>3 DEF FrameOK
    <3>2. Calls(Top) \in Seq(Item \cup {None})
      BY <1>3, <3>1, CallsAreItems
    <3>3. Len(Top.got) \in Nat
      BY <1>3 DEF Frame
    <3> QED BY <1>1, <1>6, <3>2, <3>3
  <2>2. Called(x) \in Frame
    BY <2>1 DEF Called, Frame
  <2>3. /\ stack' \in Seq(Frame) /\ Len(stack') = n + 1 /\ DOMAIN stack' = 1 .. n + 1
        /\ stack'[n + 1] = Called(x) /\ \A j \in 1 .. n : stack'[j] = stack[j]
        /\ stack' # <<>>
    <3>1. stack' = Append(stack, Called(x))
      BY <1>1, <1>6
    <3> QED BY <1>3, <2>2, <3>1
  <2>4. FrameOK(n + 1)'
    <3>1. /\ stack'[n + 1].does = "string" /\ stack'[n + 1].got = <<>>
          /\ stack'[n + 1].item = x
      BY <2>3 DEF Called
    <3>2. Len(Calls(stack'[n + 1])) \in Nat
      <4>1. Calls(stack'[n + 1]) = Parts[x]
        BY <3>1 DEF Calls
      <4> QED BY <2>1, <4>1, TypeTableAssumption
    <3>3. Calls(stack[n + 1])' = Calls(stack'[n + 1])
      BY DEF Calls
    <3> QED BY <2>3, <3>1, <3>2, <3>3 DEF FrameOK
  <2>5. FrameOK(n)'
    <3>1. stack'[n] = stack[n] /\ Calls(stack[n])' = Calls(stack[n])
      BY <1>3, <2>3 DEF Calls
    <3>2. /\ stack'[n + 1].does # "members"
          /\ stack'[n + 1].item = Calls(stack[n])[Len(stack[n].got) + 1]
          /\ Len(stack[n].got) < Len(Calls(stack[n]))
      BY <1>1, <1>3, <2>3 DEF Called
    <3>3. stack[n].does = "after" => Describes(stack[n].ref, stack[n].item)'
      <4>1. stack[n].does = "after" => Describes(stack[n].ref, stack[n].item)
        BY <1>3 DEF FrameOK
      <4>2. stack[n].does = "after" => stack[n].ref \in Ref /\ stack[n].item \in Item
        BY <1>3, <4>1 DEF Describes, Frame
      <4> QED BY <1>4, <3>1, <4>1, <4>2
    <3>4. issued' = issued
      BY <1>1
    <3> QED BY <1>3, <3>1, <3>2, <3>3, <3>4 DEF FrameOK
  <2>6. ASSUME NEW j \in 1 .. n - 1 PROVE FrameOK(j)'
    <3>1. j \in DOMAIN stack /\ j + 1 \in 1 .. n /\ j \in 1 .. n /\ j \in DOMAIN stack' /\ j < Len(stack)
      BY <1>3, <2>3
    <3>2. FrameOK(j)
      BY <1>2, <3>1 DEF StackOK
    <3>3. stack'[j] = stack[j] /\ stack'[j + 1] = stack[j + 1] /\ stack[j + 1].does # "members"
      BY <2>3, <3>1, <3>2 DEF FrameOK
    <3>4. Len(stack') \in Nat /\ issued \subseteq issued'
      BY <1>1, <2>3
    <3> QED BY <1>2, <1>4, <3>1, <3>2, <3>3, <3>4, FrameStays
  <2>7. StackOK'
    <3>1. \A j \in DOMAIN stack' : FrameOK(j)'
      BY <2>3, <2>4, <2>5, <2>6
    <3>2. stack'[1] = stack[1]
      BY <1>3, <2>3
    <3> QED BY <1>1, <1>2, <2>3, <3>1, <3>2 DEF StackOK
  <2>8. Injective' /\ IssuedOK' /\ Functional' /\ CachedOK' /\ PendingIsQueued'
    <3>1. Injective' /\ Functional' /\ PendingIsQueued'
      BY <1>1, QueueStays DEF Inv, Injective, Functional
    <3>2. IssuedOK'
      BY <1>1, <1>4 DEF Inv, IssuedOK
    <3>3. CachedOK'
      BY <1>1, <1>4, CachedStay
    <3> QED BY <3>1, <3>2, <3>3
  <2> QED BY <1>1, <1>2, <1>6, <2>3, <2>7, <2>8 DEF Inv, TypeOK
<1> QED BY <1>5, <1>6

\* The frame with a string has got its parts.
LEMMA PartsOfString ==
  ASSUME Inv, HasString
  PROVE  /\ Top \in Frame /\ Top = stack[Len(stack)] /\ Top.item \in Item
         /\ KindOf(Top.item) \in Kind
         /\ Top.got \in Seq(Ref \cup {None}) /\ Len(Top.got) = Len(Parts[Top.item])
         /\ \A i \in 1 .. Len(Parts[Top.item]) :
              IF Top.got[i] = None THEN <<Top.item, i>> \in Optional
              ELSE <<Parts[Top.item][i], Top.got[i]>> \in issued
<1>1. /\ stack # <<>> /\ Top.does = "string" /\ ~IsNull /\ Len(Top.got) = Len(Parts[Top.item])
  BY DEF HasString, InString
<1>2. Top \in Frame /\ FrameOK(Len(stack)) /\ Top = stack[Len(stack)]
  BY <1>1, TopOfStack DEF Inv, StackOK
<1>3. Top.item \in Item /\ Top.got \in Seq(Ref \cup {None}) /\ KindOf(Top.item) \in Kind
  BY <1>2, KindOfItem DEF Frame
<1>4. Parts[Top.item] \in Seq(Item \cup {None})
  BY <1>3, TypeTableAssumption
<1>5. ASSUME NEW i \in 1 .. Len(Parts[Top.item])
      PROVE  IF Top.got[i] = None THEN <<Top.item, i>> \in Optional
             ELSE <<Parts[Top.item][i], Top.got[i]>> \in issued
  <2>1. i \in DOMAIN Top.got
    BY <1>1, <1>3, <1>5
  <2> QED BY <1>1, <1>2, <2>1 DEF IsNull, FrameOK
<1> QED BY <1>1, <1>2, <1>3, <1>5

\* What is found in the table stands for the item.
LEMMA StringDescribes ==
  ASSUME Inv, HasString, NEW n \in Nat, n < Len(ids[KindOf(Top.item)]),
         ids[KindOf(Top.item)][n + 1] = String
  PROVE  Describes(<<KindOf(Top.item), n>>, Top.item)
<1>1. StringOf(<<KindOf(Top.item), n>>) = String
  BY DEF StringOf
<1>2. String.tag = Tag[Top.item] /\ String.parts = Top.got
  BY DEF String
<1> QED BY <1>1, <1>2, PartsOfString DEF Describes, Ref

\* What the worklist holds.
LEMMA Queued ==
  ASSUME TypeOK, PendingIsQueued
  PROVE  \A i \in DOMAIN worklist :
           /\ worklist[i] \in [type: Type, id: Nat] /\ worklist[i].id \in Nat
           /\ worklist[i].type \in Type
           /\ worklist[i].id + 1 \in DOMAIN state /\ worklist[i].id < Len(state)
           /\ state[worklist[i].id + 1] \in {"PendingShallow", "PendingFull"}
<1>1. \A i \in DOMAIN worklist : worklist[i] \in [type: Type, id: Nat]
  <2> DEFINE S == [type: Type, id: Nat]
  <2>1. worklist \in Seq(S)
    BY DEF TypeOK
  <2> HIDE DEF S
  <2>2. \A i \in DOMAIN worklist : worklist[i] \in S
    BY <2>1
  <2> QED BY <2>2 DEF S
<1>2. \A i \in DOMAIN worklist : worklist[i].id \in Nat /\ worklist[i].type \in Type
  BY <1>1
<1>3. \A i \in DOMAIN worklist : worklist[i].id + 1 \in DOMAIN state /\ IsPending(worklist[i].id)
  BY DEF PendingIsQueued
<1>4. \A i \in DOMAIN worklist : worklist[i].id < Len(state)
  <2>1. DOMAIN state = 1 .. Len(state) /\ Len(state) \in Nat
    BY DEF TypeOK
  <2> QED BY <1>2, <1>3, <2>1
<1> QED BY <1>1, <1>2, <1>3, <1>4 DEF IsPending

\* A known type that is asked for again.
LEMMA PromoteKeeps ==
  ASSUME TypeOK, PendingIsQueued, Top.item \in Type,
         NEW n \in Nat, n < Len(state), Promote(n)
  PROVE  /\ state' \in Seq(TypeExtractionState) /\ Len(state') = Len(state)
         /\ worklist' \in Seq([type: Type, id: Nat]) /\ PendingIsQueued'
<1>1. /\ state \in Seq(TypeExtractionState) /\ worklist \in Seq([type: Type, id: Nat])
      /\ Len(state) \in Nat /\ Len(worklist) \in Nat
      /\ DOMAIN state = 1 .. Len(state) /\ DOMAIN worklist = 1 .. Len(worklist)
      /\ n + 1 \in DOMAIN state
  BY DEF TypeOK
<1>2. CASE UNCHANGED <<state, worklist>>
  BY <1>1, <1>2, QueueStays
<1>3. CASE /\ state[n + 1] = "PendingShallow"
           /\ state' = [state EXCEPT ![n + 1] = "PendingFull"] /\ worklist' = worklist
  <2>1. state' \in Seq(TypeExtractionState) /\ Len(state') = Len(state) /\ DOMAIN state' = DOMAIN state
    BY <1>1, <1>3 DEF TypeExtractionState
  <2>2. \A m \in Nat : m + 1 \in DOMAIN state => (IsPending(m)' <=> IsPending(m))
    BY <1>1, <1>3 DEF IsPending
  <2>3. PendingIsQueued'
    <3>1. \A i \in DOMAIN worklist : worklist[i].id \in Nat /\ worklist[i].id + 1 \in DOMAIN state
      BY Queued
    <3>2. \A m \in DOMAIN state : m - 1 \in Nat /\ (m - 1) + 1 = m
      BY <1>1
    <3>3. \A m \in DOMAIN state : IsPending(m - 1)' <=> IsPending(m - 1)
      BY <2>2, <3>2
    <3>4. \A i \in DOMAIN worklist : IsPending(worklist[i].id)'
      BY <2>2, <3>1, <1>3 DEF PendingIsQueued
    <3> QED BY <1>3, <2>1, <3>1, <3>3, <3>4 DEF PendingIsQueued
  <2> QED BY <1>1, <1>3, <2>1, <2>3
<1>4. CASE /\ state[n + 1] = "DoneShallow"
           /\ state' = [state EXCEPT ![n + 1] = "PendingFull"]
           /\ worklist' = Append(worklist, Entry(n))
  <2>1. state' \in Seq(TypeExtractionState) /\ Len(state') = Len(state) /\ DOMAIN state' = DOMAIN state
    BY <1>1, <1>4 DEF TypeExtractionState
  <2>2. Entry(n) \in [type: Type, id: Nat] /\ Entry(n).id = n
    BY DEF Entry
  <2>3. /\ worklist' \in Seq([type: Type, id: Nat]) /\ Len(worklist') = Len(worklist) + 1
        /\ DOMAIN worklist' = 1 .. Len(worklist) + 1
        /\ worklist'[Len(worklist) + 1].id = n
        /\ \A i \in DOMAIN worklist : i \in DOMAIN worklist' /\ worklist'[i] = worklist[i]
    BY <1>1, <1>4, <2>2
  <2>4. /\ state'[n + 1] = "PendingFull"
        /\ \A m \in DOMAIN state : m # n + 1 => state'[m] = state[m]
    BY <1>1, <1>4
  <2>5. \A i \in DOMAIN worklist : /\ worklist[i].id \in Nat /\ worklist[i].id + 1 \in DOMAIN state
                                   /\ worklist[i].id # n /\ worklist[i].id + 1 # n + 1
                                   /\ state[worklist[i].id + 1] \in {"PendingShallow", "PendingFull"}
    <3> SUFFICES ASSUME NEW i \in DOMAIN worklist PROVE worklist[i].id # n /\ worklist[i].id + 1 # n + 1
      BY Queued
    <3>1. worklist[i].id \in Nat /\ state[worklist[i].id + 1] \in {"PendingShallow", "PendingFull"}
      BY Queued
    <3>2. worklist[i].id + 1 # n + 1
      BY <1>4, <3>1
    <3> QED BY <3>1, <3>2
  <2>6. \A i \in DOMAIN worklist' : worklist'[i].id + 1 \in DOMAIN state'
    <3> SUFFICES ASSUME NEW i \in DOMAIN worklist' PROVE worklist'[i].id + 1 \in DOMAIN state
      BY <2>1
    <3>1. CASE i \in DOMAIN worklist
      BY <2>3, <2>5, <3>1
    <3>2. CASE i \notin DOMAIN worklist
      <4>1. i = Len(worklist) + 1
        BY <1>1, <2>3, <3>2
      <4> QED BY <1>1, <2>3, <4>1
    <3> QED BY <3>1, <3>2
  <2>7. \A i \in DOMAIN worklist' :
          state'[worklist'[i].id + 1] \in {"PendingShallow", "PendingFull"}
    <3> SUFFICES ASSUME NEW i \in DOMAIN worklist'
                 PROVE  state'[worklist'[i].id + 1] \in {"PendingShallow", "PendingFull"}
      OBVIOUS
    <3>1. CASE i \in DOMAIN worklist
      BY <2>3, <2>4, <2>5, <3>1
    <3>2. CASE i \notin DOMAIN worklist
      <4>1. i = Len(worklist) + 1
        BY <1>1, <2>3, <3>2
      <4> QED BY <2>3, <2>4, <4>1
    <3> QED BY <3>1, <3>2
  <2>8. ASSUME NEW m \in DOMAIN state', state'[(m - 1) + 1] \in {"PendingShallow", "PendingFull"}
        PROVE  \E i \in DOMAIN worklist' : worklist'[i].id = m - 1
    <3>1. CASE m = n + 1
      <4>1. Len(worklist) + 1 \in DOMAIN worklist'
        BY <1>1, <2>3
      <4>2. worklist'[Len(worklist) + 1].id = m - 1
        BY <1>1, <2>3, <3>1
      <4> QED BY <4>1, <4>2
    <3>2. CASE m # n + 1
      <4>1. m \in DOMAIN state /\ IsPending(m - 1)
        BY <1>1, <2>1, <2>4, <2>8, <3>2 DEF IsPending
      <4>2. PICK i \in DOMAIN worklist : worklist[i].id = m - 1
        BY <4>1 DEF PendingIsQueued
      <4> QED BY <2>3, <4>2
    <3> QED BY <3>1, <3>2
  <2>9. \A i, j \in DOMAIN worklist' : worklist'[i].id = worklist'[j].id => i = j
    <3>1. \A i \in DOMAIN worklist' : i \in DOMAIN worklist \/ i = Len(worklist) + 1
      BY <1>1, <2>3
    <3>2. \A i, j \in DOMAIN worklist : worklist[i].id = worklist[j].id => i = j
      BY DEF PendingIsQueued
    <3> QED BY <2>3, <2>5, <3>1, <3>2
  <2>10. PendingIsQueued'
    BY <2>6, <2>7, <2>8, <2>9 DEF PendingIsQueued, IsPending
  <2> QED BY <2>1, <2>3, <2>10
<1> QED BY <1>2, <1>3, <1>4 DEF Promote

LEMMA FindKeeps ==
  ASSUME Inv, Find
  PROVE  Inv'
<1>1. /\ HasString /\ stack # <<>> /\ Top.does = "string" /\ UNCHANGED <<ids, shallow>>
  BY DEF Find, HasString, InString
<1>2. PICK n \in Found :
        /\ IF Top.item \in Type THEN Promote(n) ELSE UNCHANGED <<state, worklist>>
        /\ cached' = IF Top.item \in Symbol
                       THEN [cached EXCEPT ![Top.item] = <<"symbol", n>>] ELSE cached
        /\ Return(<<KindOf(Top.item), n>>)
  BY DEF Find
<1>3. TypeOK /\ PendingIsQueued
  BY DEF Inv
<1>4. /\ Top.item \in Item /\ KindOf(Top.item) \in Kind
      /\ KindOf(Top.item) = "type" <=> Top.item \in Type
      /\ KindOf(Top.item) = "symbol" <=> Top.item \in Symbol
  <2>1. Top.item \in Item
    BY <1>1, <1>3, TopOfStack DEF Frame
  <2> QED BY <2>1, KindOfItem
<1>5. n \in Nat /\ n < Len(ids[KindOf(Top.item)]) /\ ids[KindOf(Top.item)][n + 1] = String
  <2>1. ids[KindOf(Top.item)] \in Seq(Content)
    BY <1>3, <1>4 DEF TypeOK
  <2> QED BY <2>1 DEF Found
<1>6. Describes(<<KindOf(Top.item), n>>, Top.item) /\ <<KindOf(Top.item), n>> \in Ref
  <2>1. Describes(<<KindOf(Top.item), n>>, Top.item)
    BY <1>1, <1>5, StringDescribes
  <2> QED BY <1>4, <1>5, <2>1 DEF Ref
<1>7. /\ Injective' /\ IssuedOK' /\ Functional' /\ StackOK'
      /\ issued' \subseteq Item \X Ref /\ built' \subseteq Ref
      /\ stack' \in Seq(Frame) /\ rows' \in Seq(Row)
      /\ phase' \in {"idle", "ask", "build", "iterate"}
      /\ \A x \in Item : \A w \in Ref : Describes(w, x) => Describes(w, x)'
  BY <1>1, <1>2, <1>6, ReturnKeeps
<1>8. /\ state' \in Seq(TypeExtractionState) /\ Len(state') = Len(state)
      /\ worklist' \in Seq([type: Type, id: Nat]) /\ PendingIsQueued'
  <2>1. CASE Top.item \in Type
    <3>1. n < Len(state) /\ Promote(n)
      BY <1>2, <1>3, <1>4, <1>5, <2>1 DEF TypeOK
    <3> QED BY <1>3, <1>5, <2>1, <3>1, PromoteKeeps
  <2>2. CASE Top.item \notin Type
    BY <1>2, <1>3, <2>2, QueueStays DEF TypeOK
  <2> QED BY <2>1, <2>2
<1>9. cached' \in [Symbol -> Ref \cup {None}] /\ CachedOK'
  <2>1. CASE Top.item \in Symbol
    <3>1. cached' = [cached EXCEPT ![Top.item] = <<KindOf(Top.item), n>>]
      BY <1>2, <1>4, <2>1
    <3>2. cached' \in [Symbol -> Ref \cup {None}]
      BY <1>3, <1>6, <3>1 DEF TypeOK
    <3>3. ASSUME NEW y \in Symbol, cached'[y] # None PROVE Describes(cached[y], y)'
      <4>1. CASE y = Top.item
        <5>1. cached'[y] = <<KindOf(Top.item), n>>
          BY <1>3, <2>1, <3>1, <4>1 DEF TypeOK
        <5>2. Describes(cached'[y], y) /\ cached'[y] \in Ref /\ y \in Item
          BY <1>4, <1>6, <4>1, <5>1
        <5>3. ASSUME NEW w, w = cached'[y] PROVE Describes(w, y)'
          BY <1>7, <5>2, <5>3
        <5> QED BY <5>3 DEF Describes, StringOf
      <4>2. CASE y # Top.item
        <5>1. cached'[y] = cached[y]
          BY <1>3, <3>1, <4>2 DEF TypeOK
        <5>2. Describes(cached[y], y) /\ cached[y] \in Ref /\ y \in Item
          BY <1>3, <3>3, <5>1 DEF Inv, CachedOK, TypeOK, Item
        <5>3. ASSUME NEW w, w = cached'[y] PROVE Describes(w, y)'
          BY <1>7, <5>1, <5>2, <5>3
        <5> QED BY <5>3 DEF Describes, StringOf
      <4> QED BY <4>1, <4>2
    <3> QED BY <3>2, <3>3 DEF CachedOK
  <2>2. CASE Top.item \notin Symbol
    <3>1. cached' = cached
      BY <1>2, <2>2
    <3> QED BY <1>3, <1>7, <3>1, CachedStay DEF TypeOK
  <2> QED BY <2>1, <2>2
<1> QED BY <1>1, <1>3, <1>7, <1>8, <1>9 DEF Inv, TypeOK

\* A type that is new.
LEMMA QueueGrows ==
  ASSUME TypeOK, PendingIsQueued, NEW e \in [type: Type, id: Nat], e.id = Len(state),
         NEW p, p \in {"PendingShallow", "PendingFull"},
         state' = Append(state, p), worklist' = Append(worklist, e)
  PROVE  /\ state' \in Seq(TypeExtractionState) /\ Len(state') = Len(state) + 1
         /\ worklist' \in Seq([type: Type, id: Nat]) /\ PendingIsQueued'
<1>1. /\ state \in Seq(TypeExtractionState) /\ worklist \in Seq([type: Type, id: Nat])
      /\ Len(state) \in Nat /\ Len(worklist) \in Nat
      /\ DOMAIN state = 1 .. Len(state) /\ DOMAIN worklist = 1 .. Len(worklist)
  BY DEF TypeOK
<1>2. /\ state' \in Seq(TypeExtractionState) /\ Len(state') = Len(state) + 1
      /\ DOMAIN state' = 1 .. Len(state) + 1
      /\ state'[Len(state) + 1] = p /\ \A m \in DOMAIN state : state'[m] = state[m]
  BY <1>1 DEF TypeExtractionState
<1>3. /\ worklist' \in Seq([type: Type, id: Nat]) /\ DOMAIN worklist' = 1 .. Len(worklist) + 1
      /\ worklist'[Len(worklist) + 1] = e
      /\ \A i \in DOMAIN worklist : worklist'[i] = worklist[i]
  BY <1>1
<1>4. \A i \in DOMAIN worklist' :
        \/ i = Len(worklist) + 1
        \/ i \in DOMAIN worklist /\ worklist'[i].id = worklist[i].id
  BY <1>1, <1>3
<1>5. \A i \in DOMAIN worklist : /\ worklist[i].id \in Nat /\ worklist[i].id < Len(state)
                                 /\ worklist[i].id + 1 \in DOMAIN state
                                 /\ state[worklist[i].id + 1] \in {"PendingShallow", "PendingFull"}
  BY Queued
<1>6. ASSUME NEW i \in DOMAIN worklist'
      PROVE  /\ worklist'[i].id + 1 \in DOMAIN state'
             /\ state'[worklist'[i].id + 1] \in {"PendingShallow", "PendingFull"}
  <2>1. CASE i = Len(worklist) + 1
    BY <1>1, <1>2, <1>3, <2>1
  <2>2. CASE i \in DOMAIN worklist /\ worklist'[i].id = worklist[i].id
    <3>1. worklist[i].id + 1 \in 1 .. Len(state) + 1
      BY <1>1, <1>5, <2>2
    <3>2. state'[worklist[i].id + 1] \in {"PendingShallow", "PendingFull"}
      BY <1>2, <1>5, <2>2
    <3> QED BY <1>2, <2>2, <3>1, <3>2
  <2> QED BY <1>4, <2>1, <2>2
<1>7. ASSUME NEW m \in DOMAIN state', state'[(m - 1) + 1] \in {"PendingShallow", "PendingFull"}
      PROVE  \E i \in DOMAIN worklist' : worklist'[i].id = m - 1
  <2>1. CASE m = Len(state) + 1
    <3>1. Len(worklist) + 1 \in DOMAIN worklist' /\ worklist'[Len(worklist) + 1].id = m - 1
      BY <1>1, <1>3, <2>1
    <3> QED BY <3>1
  <2>2. CASE m # Len(state) + 1
    <3>1. m \in DOMAIN state /\ IsPending(m - 1)
      BY <1>1, <1>2, <1>7, <2>2 DEF IsPending
    <3>2. PICK i \in DOMAIN worklist : worklist[i].id = m - 1
      BY <3>1 DEF PendingIsQueued
    <3>3. i \in DOMAIN worklist' /\ worklist'[i].id = m - 1
      BY <1>1, <1>3, <3>2
    <3> QED BY <3>3
  <2> QED BY <2>1, <2>2
<1>8. \A i, j \in DOMAIN worklist' : worklist'[i].id = worklist'[j].id => i = j
  <2>1. \A i, j \in DOMAIN worklist : worklist[i].id = worklist[j].id => i = j
    BY DEF PendingIsQueued
  <2>2. \A i \in DOMAIN worklist : worklist[i].id # Len(state)
    BY <1>1, <1>5
  <2> QED BY <1>3, <1>4, <2>1, <2>2
<1>9. PendingIsQueued'
  BY <1>6, <1>7, <1>8 DEF PendingIsQueued, IsPending
<1> QED BY <1>2, <1>3, <1>9

\* An entry that is done with.
LEMMA QueueShrinks ==
  ASSUME TypeOK, PendingIsQueued, worklist # <<>>, Pop,
         NEW d \in {"DoneShallow", "DoneFull"}, state' = [state EXCEPT ![NextEntry.id + 1] = d]
  PROVE  /\ state' \in Seq(TypeExtractionState) /\ Len(state') = Len(state)
         /\ worklist' \in Seq([type: Type, id: Nat]) /\ PendingIsQueued'
         /\ NextEntry.type \in Type /\ NextEntry.id \in Nat /\ NextEntry.id + 1 \in DOMAIN state
         /\ state[NextEntry.id + 1] \in {"PendingShallow", "PendingFull"}
<1>1. /\ state \in Seq(TypeExtractionState) /\ worklist \in Seq([type: Type, id: Nat])
      /\ Len(state) \in Nat /\ Len(worklist) \in Nat /\ Len(worklist) >= 1
      /\ DOMAIN state = 1 .. Len(state) /\ DOMAIN worklist = 1 .. Len(worklist)
  BY DEF TypeOK
<1>2. Len(worklist) \in DOMAIN worklist /\ NextEntry = worklist[Len(worklist)]
  BY <1>1 DEF NextEntry
<1>3. /\ NextEntry.type \in Type /\ NextEntry.id \in Nat /\ NextEntry.id + 1 \in DOMAIN state
      /\ state[NextEntry.id + 1] \in {"PendingShallow", "PendingFull"}
  BY <1>2, Queued
<1>4. /\ state' \in Seq(TypeExtractionState) /\ Len(state') = Len(state)
      /\ DOMAIN state' = DOMAIN state /\ state'[NextEntry.id + 1] = d
      /\ \A m \in DOMAIN state : m # NextEntry.id + 1 => state'[m] = state[m]
  BY <1>1, <1>3 DEF TypeExtractionState
<1>5. /\ worklist' \in Seq([type: Type, id: Nat]) /\ DOMAIN worklist' = 1 .. Len(worklist) - 1
      /\ \A i \in DOMAIN worklist' : worklist'[i] = worklist[i] /\ i \in DOMAIN worklist
  <2> DEFINE S == [type: Type, id: Nat]
  <2>1. worklist \in Seq(S) /\ worklist' = SubSeq(worklist, 1, Len(worklist) - 1)
    BY <1>1 DEF Pop
  <2> HIDE DEF S
  <2>2. /\ worklist' \in Seq(S) /\ Len(worklist') = Len(worklist) - 1
        /\ \A i \in 1 .. Len(worklist) - 1 : worklist'[i] = worklist[i] /\ i \in DOMAIN worklist
    BY <1>1, <2>1
  <2>3. DOMAIN worklist' = 1 .. Len(worklist) - 1
    BY <2>2
  <2> QED BY <2>2, <2>3 DEF S
<1>6. \A i, j \in DOMAIN worklist : worklist[i].id = worklist[j].id => i = j
  BY DEF PendingIsQueued
<1>7. ASSUME NEW i \in DOMAIN worklist'
      PROVE  /\ worklist'[i].id + 1 \in DOMAIN state'
             /\ state'[worklist'[i].id + 1] \in {"PendingShallow", "PendingFull"}
  <2>1. i \in DOMAIN worklist /\ i # Len(worklist) /\ worklist'[i] = worklist[i]
    BY <1>1, <1>5
  <2>2. worklist[i].id # NextEntry.id
    BY <1>2, <1>6, <2>1
  <2>3. /\ worklist[i].id \in Nat /\ worklist[i].id + 1 \in DOMAIN state
        /\ state[worklist[i].id + 1] \in {"PendingShallow", "PendingFull"}
    BY <2>1, Queued
  <2>4. worklist[i].id + 1 # NextEntry.id + 1
    BY <1>3, <2>2, <2>3
  <2> QED BY <1>4, <2>1, <2>3, <2>4
<1>8. ASSUME NEW m \in DOMAIN state', state'[(m - 1) + 1] \in {"PendingShallow", "PendingFull"}
      PROVE  \E i \in DOMAIN worklist' : worklist'[i].id = m - 1
  <2>1. m \in DOMAIN state /\ (m - 1) + 1 = m /\ m # NextEntry.id + 1 /\ state'[m] = state[m]
    BY <1>1, <1>4, <1>8
  <2>2. IsPending(m - 1)
    BY <1>8, <2>1 DEF IsPending
  <2>3. PICK i \in DOMAIN worklist : worklist[i].id = m - 1
    BY <2>1, <2>2 DEF PendingIsQueued
  <2>4. i # Len(worklist)
    BY <1>1, <1>2, <1>3, <2>1, <2>3
  <2>5. i \in DOMAIN worklist' /\ worklist'[i].id = m - 1
    BY <1>1, <1>5, <2>3, <2>4
  <2> QED BY <2>5
<1>9. PendingIsQueued'
  <2>1. \A i, j \in DOMAIN worklist' : worklist'[i].id = worklist'[j].id => i = j
    BY <1>5, <1>6
  <2> QED BY <1>7, <1>8, <2>1 DEF PendingIsQueued, IsPending
<1> QED BY <1>3, <1>4, <1>5, <1>9

LEMMA RegisterKeeps ==
  ASSUME Inv, Register
  PROVE  Inv'
<1>1. TypeOK /\ StackOK /\ PendingIsQueued /\ Injective
  BY DEF Inv
<1>2. /\ HasString /\ Found = {} /\ stack # <<>>
      /\ UNCHANGED <<shallow, phase, issued, built>>
  BY DEF Register, HasString, InString
<1>3. PICK k \in Kind : k = KindOf(Top.item)
  BY <1>2, PartsOfString
<1>4. PICK n \in Nat : n = Len(ids[k]) /\ DOMAIN ids[k] = 1 .. n /\ ids[k] \in Seq(Content)
  BY <1>1 DEF TypeOK
<1>5. /\ ids' = [ids EXCEPT ![k] = Append(@, String)]
      /\ IF k = "type" THEN /\ worklist' = Append(worklist, Entry(n))
                            /\ state' = Append(state, Pending)
                       ELSE UNCHANGED <<worklist, state>>
      /\ cached' = IF k = "symbol" THEN [cached EXCEPT ![Top.item] = <<k, n>>] ELSE cached
      /\ stack' = [stack EXCEPT ![Len(stack)] =
                     [does |-> "after", item |-> Top.item, ref |-> <<k, n>>, got |-> <<>>]]
      /\ rows' = IF Top.item \notin Global THEN rows
                 ELSE Append(rows, [does |-> "global", from |-> <<k, n>>, index |-> 0,
                                    to |-> <<k, n>>])
  BY <1>3, <1>4 DEF Register
<1>6. /\ Top \in Frame /\ Top = stack[Len(stack)] /\ Top.item \in Item
      /\ Top.got \in Seq(Ref \cup {None}) /\ Len(Top.got) = Len(Parts[Top.item])
      /\ \A i \in 1 .. Len(Parts[Top.item]) :
           IF Top.got[i] = None THEN <<Top.item, i>> \in Optional
           ELSE <<Parts[Top.item][i], Top.got[i]>> \in issued
      /\ stack \in Seq(Frame) /\ Len(stack) \in Nat /\ Len(stack) >= 1
      /\ <<k, n>> \in Ref
  BY <1>1, <1>2, <1>3, PartsOfString, TopOfStack DEF TypeOK, Ref
<1>7. k = "type" <=> Top.item \in Type
  BY <1>3, <1>6, KindOfItem
<1>8. k = "symbol" <=> Top.item \in Symbol
  BY <1>3, <1>6, KindOfItem
<1>9. String \in Content /\ String.tag = Tag[Top.item] /\ String.parts = Top.got
  BY <1>6 DEF String, Content
<1>10. /\ ids' \in [Kind -> Seq(Content)]
       /\ ids'[k] = Append(ids[k], String) /\ Len(ids'[k]) = n + 1 /\ ids'[k][n + 1] = String
       /\ \A m \in 1 .. n : ids'[k][m] = ids[k][m]
       /\ \A l \in Kind : l # k => ids'[l] = ids[l]
  <2>1. ids \in [Kind -> Seq(Content)]
    BY <1>1 DEF TypeOK
  <2>2. ids'[k] = Append(ids[k], String) /\ \A l \in Kind : l # k => ids'[l] = ids[l]
    BY <1>5, <2>1
  <2>3. Append(ids[k], String) \in Seq(Content)
    BY <1>4, <1>9
  <2>4. ids' \in [Kind -> Seq(Content)]
    BY <1>5, <2>1, <2>3
  <2> QED BY <1>4, <2>2, <2>4
<1>11. \A l \in Kind : /\ Len(ids[l]) <= Len(ids'[l]) /\ Len(ids'[l]) \in Nat
                       /\ \A m \in 1 .. Len(ids[l]) : ids'[l][m] = ids[l][m]
  <2> SUFFICES ASSUME NEW l \in Kind
               PROVE  /\ Len(ids[l]) <= Len(ids'[l]) /\ Len(ids'[l]) \in Nat
                      /\ \A m \in 1 .. Len(ids[l]) : ids'[l][m] = ids[l][m]
    OBVIOUS
  <2>1. CASE l = k
    BY <1>4, <1>10, <2>1
  <2>2. CASE l # k
    <3>1. Len(ids[l]) \in Nat
      BY <1>1 DEF TypeOK
    <3> QED BY <1>10, <2>2, <3>1
  <2> QED BY <2>1, <2>2
<1>12. \A x \in Item : \A w \in Ref : Describes(w, x) => Describes(w, x)'
  <2>1. issued \subseteq issued'
    BY <1>2
  <2> QED BY <1>1, <1>11, <2>1, DescriptionStays
<1>13. ASSUME NEW w, w = <<k, n>>, NEW x, x = Top.item
       PROVE  Describes(w, x)'
  <2>1. StringOf(w)' = String
    BY <1>10, <1>13 DEF StringOf
  <2>2. w \in Ref /\ w[1] = KindOf(x) /\ w[2] < Len(ids'[w[1]])
    <3>1. w[1] = k /\ w[2] = n
      BY <1>13
    <3>2. n < Len(ids'[k])
      BY <1>10
    <3> QED BY <1>3, <1>6, <1>13, <3>1, <3>2
  <2> QED BY <1>2, <1>6, <1>9, <1>13, <2>1, <2>2 DEF Describes
<1>14. Injective'
  <2>1. \A m \in 1 .. n : ids[k][m] # String
    <3> SUFFICES ASSUME NEW m \in 1 .. n, ids[k][m] = String PROVE FALSE
      OBVIOUS
    <3>1. m - 1 \in 0 .. n - 1 /\ (m - 1) + 1 = m
      BY <1>4
    <3>2. m - 1 \in Found
      BY <1>3, <1>4, <3>1 DEF Found
    <3> QED BY <1>2, <3>2
  <2> SUFFICES ASSUME NEW l \in Kind, NEW a \in DOMAIN ids'[l], NEW b \in DOMAIN ids'[l],
                      ids'[l][a] = ids'[l][b]
               PROVE  a = b
    BY DEF Injective
  <2>2. CASE l # k
    BY <1>1, <1>10, <2>2 DEF Injective
  <2>3. CASE l = k
    <3>1. a \in 1 .. n + 1 /\ b \in 1 .. n + 1
      BY <1>10, <2>3, <1>4, <1>9
    <3>2. CASE a = n + 1
      BY <1>10, <2>1, <2>3, <3>1, <3>2
    <3>3. CASE b = n + 1
      BY <1>10, <2>1, <2>3, <3>1, <3>3
    <3>4. CASE a # n + 1 /\ b # n + 1
      <4>1. a \in DOMAIN ids[k] /\ b \in DOMAIN ids[k]
        BY <1>4, <3>1, <3>4
      <4> QED BY <1>1, <1>4, <1>10, <2>3, <4>1 DEF Injective
    <3> QED BY <3>2, <3>3, <3>4
  <2> QED BY <2>2, <2>3
<1>15. IssuedOK' /\ Functional'
  BY <1>2, <1>12 DEF Inv, IssuedOK, Functional
<1>16. cached' \in [Symbol -> Ref \cup {None}] /\ CachedOK'
  <2>1. CASE k = "symbol"
    <3>1. /\ cached' = [cached EXCEPT ![Top.item] = <<k, n>>]
          /\ cached \in [Symbol -> Ref \cup {None}] /\ Top.item \in Symbol
      BY <1>1, <1>5, <1>8, <2>1 DEF TypeOK
    <3>2. ASSUME NEW y \in Symbol, cached'[y] # None PROVE Describes(cached[y], y)'
      <4>1. CASE y = Top.item
        <5>1. cached'[y] = <<k, n>>
          BY <3>1, <4>1
        <5>2. ASSUME NEW w, w = cached'[y] PROVE Describes(w, y)'
          BY <1>13, <4>1, <5>1, <5>2
        <5> QED BY <5>2 DEF Describes, StringOf
      <4>2. CASE y # Top.item
        <5>1. cached'[y] = cached[y]
          BY <3>1, <4>2
        <5>2. Describes(cached[y], y) /\ cached[y] \in Ref /\ y \in Item
          BY <3>1, <3>2, <5>1 DEF Inv, CachedOK, Item
        <5>3. ASSUME NEW w, w = cached'[y] PROVE Describes(w, y)'
          BY <1>12, <5>1, <5>2, <5>3
        <5> QED BY <5>3 DEF Describes, StringOf
      <4> QED BY <4>1, <4>2
    <3> QED BY <1>6, <3>1, <3>2 DEF CachedOK
  <2>2. CASE k # "symbol"
    <3>1. cached' = cached
      BY <1>5, <2>2
    <3> QED BY <1>1, <1>12, <3>1, CachedStay DEF TypeOK
  <2> QED BY <2>1, <2>2
<1>17. /\ state' \in Seq(TypeExtractionState) /\ Len(state') = Len(ids'["type"])
       /\ worklist' \in Seq([type: Type, id: Nat]) /\ PendingIsQueued'
  <2>1. CASE k = "type"
    <3>1. Len(state) = n /\ Pending \in {"PendingShallow", "PendingFull"}
      BY <1>1, <1>4, <2>1 DEF TypeOK, Pending
    <3>2. Entry(n) \in [type: Type, id: Nat] /\ Entry(n).id = Len(state)
      BY <1>7, <2>1, <3>1 DEF Entry
    <3>3. state' = Append(state, Pending) /\ worklist' = Append(worklist, Entry(n))
      BY <1>5, <2>1
    <3>4. /\ state' \in Seq(TypeExtractionState) /\ Len(state') = Len(state) + 1
          /\ worklist' \in Seq([type: Type, id: Nat]) /\ PendingIsQueued'
      BY <1>1, <3>1, <3>2, <3>3, QueueGrows
    <3> QED BY <1>10, <2>1, <3>1, <3>4
  <2>2. CASE k # "type"
    <3>1. UNCHANGED <<worklist, state>> /\ ids'["type"] = ids["type"]
      BY <1>5, <1>10, <2>2 DEF Kind
    <3> QED BY <1>1, <3>1, QueueStays DEF TypeOK
  <2> QED BY <2>1, <2>2
<1>18. PICK f \in Frame : f = [does |-> "after", item |-> Top.item, ref |-> <<k, n>>, got |-> <<>>]
  <2>1. <<>> \in Seq(Ref \cup {None})
    OBVIOUS
  <2> QED BY <1>6, <2>1 DEF Frame
<1>19. f.does = "after" /\ f.item = Top.item /\ f.ref = <<k, n>> /\ f.got = <<>>
  BY <1>18
<1>20. PICK d \in Nat : d = Len(stack) /\ d >= 1
  BY <1>6
<1>21. /\ stack' \in Seq(Frame) /\ Len(stack') = d /\ DOMAIN stack' = 1 .. d /\ stack' # <<>>
       /\ stack'[d] = f /\ \A j \in 1 .. d - 1 : stack'[j] = stack[j]
  <2>1. stack' = [stack EXCEPT ![d] = f]
    BY <1>5, <1>18, <1>20
  <2> QED BY <1>6, <1>20, <2>1
<1>22. StackOK'
  <2>1. FrameOK(d)'
    <3>1. Len(Calls(stack'[d])) \in Nat /\ Calls(stack[d])' = Calls(stack'[d])
      <4>1. Calls(stack'[d]) = After[Top.item]
        BY <1>19, <1>21 DEF Calls
      <4>2. After[Top.item] \in Seq(Symbol)
        BY <1>6, TypeTableAssumption
      <4>3. Calls(stack[d])' = Calls(stack'[d])
        BY DEF Calls
      <4> QED BY <4>1, <4>2, <4>3
    <3>2. Describes(stack[d].ref, stack[d].item)'
      <4>1. ASSUME NEW w, w = stack'[d].ref, NEW x, x = stack'[d].item PROVE Describes(w, x)'
        BY <1>13, <1>19, <1>21, <4>1
      <4> QED BY <4>1 DEF Describes, StringOf
    <3> QED BY <1>19, <1>21, <3>1, <3>2 DEF FrameOK
  <2>2. \A j \in 1 .. d - 1 : FrameOK(j)'
    <3>1. d <= Len(stack) /\ stack'[d].item = stack[d].item /\ stack'[d].does # "members"
      BY <1>6, <1>19, <1>20, <1>21
    <3>2. issued \subseteq issued'
      BY <1>2
    <3> QED BY <1>1, <1>12, <1>20, <1>21, <3>1, <3>2, OthersStay
  <2>3. stack'[1].item = stack[1].item /\ (stack[1].does # "members" => stack'[1].does # "members")
    <3>1. CASE d = 1
      BY <1>6, <1>19, <1>20, <1>21, <3>1
    <3>2. CASE d # 1
      <4>1. 1 \in 1 .. d - 1
        BY <1>20, <3>2
      <4> QED BY <1>21, <4>1
    <3> QED BY <3>1, <3>2
  <2>4. \A j \in DOMAIN stack' : FrameOK(j)'
    BY <1>20, <1>21, <2>1, <2>2
  <2> QED BY <1>1, <1>2, <1>21, <2>3, <2>4 DEF StackOK
<1>23. rows' \in Seq(Row)
  <2>1. [does |-> "global", from |-> <<k, n>>, index |-> 0, to |-> <<k, n>>] \in Row
    BY <1>6 DEF Row
  <2> QED BY <1>1, <1>5, <2>1 DEF TypeOK
<1> QED BY <1>1, <1>2, <1>10, <1>14, <1>15, <1>16, <1>17, <1>21, <1>22, <1>23 DEF Inv, TypeOK

\* Where no number is new and at most one frame, a new one, is left.
LEMMA TablesKept ==
  ASSUME Inv, UNCHANGED <<ids, issued>>
  PROVE  /\ Injective' /\ IssuedOK' /\ Functional'
         /\ \A x \in Item : \A w \in Ref : Describes(w, x) => Describes(w, x)'
<1>1. \A x \in Item : \A w \in Ref : Describes(w, x) => Describes(w, x)'
  BY SameTables
<1> QED BY <1>1 DEF Inv, Injective, IssuedOK, Functional

LEMMA StackKept ==
  ASSUME Inv, UNCHANGED <<ids, issued, stack, phase>>
  PROVE  StackOK'
<1>1. \A j \in DOMAIN stack : FrameOK(j)'
  BY DEF Inv, StackOK, FrameOK, Calls, Describes, StringOf
<1> QED BY <1>1 DEF Inv, StackOK

LEMMA LeaveShallowKeeps ==
  ASSUME Inv, LeaveShallow
  PROVE  Inv'
<1>1. /\ worklist # <<>> /\ Pop /\ state' = [state EXCEPT ![NextEntry.id + 1] = "DoneShallow"]
      /\ UNCHANGED <<ids, shallow, cached, rows, stack, phase, issued, built>>
  BY DEF LeaveShallow
<1>2. /\ state' \in Seq(TypeExtractionState) /\ Len(state') = Len(state)
      /\ worklist' \in Seq([type: Type, id: Nat]) /\ PendingIsQueued'
  BY <1>1, QueueShrinks DEF Inv
<1>3. Injective' /\ IssuedOK' /\ Functional' /\ CachedOK' /\ StackOK'
  BY <1>1, TablesKept, StackKept, CachedStay
<1> QED BY <1>1, <1>2, <1>3 DEF Inv, TypeOK

LEMMA ExtractKeeps ==
  ASSUME Inv, Extract
  PROVE  Inv'
<1>1. /\ worklist # <<>> /\ Pop /\ state' = [state EXCEPT ![NextEntry.id + 1] = "DoneFull"]
      /\ phase = "iterate" /\ stack = <<>>
      /\ shallow' = IF NextEntry.type \in Alias THEN shallow
                    ELSE state[NextEntry.id + 1] = "PendingShallow" \/ NextEntry.type \in Expansive
      /\ stack' = <<[does |-> "members", item |-> NextEntry.type,
                     ref |-> <<"type", NextEntry.id>>, got |-> <<>>]>>
      /\ UNCHANGED <<ids, cached, rows, phase, issued, built>>
  BY DEF Extract, Iterating
<1>2. /\ state' \in Seq(TypeExtractionState) /\ Len(state') = Len(state)
      /\ worklist' \in Seq([type: Type, id: Nat]) /\ PendingIsQueued'
      /\ NextEntry.type \in Type /\ NextEntry.id \in Nat
  BY <1>1, QueueShrinks DEF Inv
<1>3. Injective' /\ IssuedOK' /\ Functional' /\ CachedOK'
  BY <1>1, TablesKept, CachedStay
<1>4. shallow' \in BOOLEAN
  BY <1>1 DEF Inv, TypeOK
<1>5. PICK f \in Frame : f = [does |-> "members", item |-> NextEntry.type,
                              ref |-> <<"type", NextEntry.id>>, got |-> <<>>]
  <2>1. <<"type", NextEntry.id>> \in Ref /\ NextEntry.type \in Item
    BY <1>2 DEF Ref, Kind, Item
  <2>2. <<>> \in Seq(Ref \cup {None})
    OBVIOUS
  <2> QED BY <2>1, <2>2 DEF Frame
<1>6. f.does = "members" /\ f.item = NextEntry.type /\ f.got = <<>> /\ f.ref \in Ref
  <2>1. <<"type", NextEntry.id>> \in Ref
    BY <1>2 DEF Ref, Kind
  <2> QED BY <1>5, <2>1
<1>7. stack' = <<f>> /\ stack' \in Seq(Frame) /\ Len(stack') = 1 /\ DOMAIN stack' = {1}
      /\ stack'[1] = f
  BY <1>1, <1>5
<1>8. FrameOK(1)'
  <2>1. Calls(stack[1])' = Members[NextEntry.type]
    BY <1>6, <1>7 DEF Calls
  <2>2. Members[NextEntry.type] \in Seq(Item \cup {None})
    BY <1>2, TypeTableAssumption
  <2> QED BY <1>2, <1>6, <1>7, <2>1, <2>2 DEF FrameOK
<1>9. StackOK'
  BY <1>1, <1>7, <1>8 DEF StackOK
<1> QED BY <1>1, <1>2, <1>3, <1>4, <1>7, <1>9 DEF Inv, TypeOK

LEMMA ExtractedKeeps ==
  ASSUME Inv, Extracted
  PROVE  Inv'
<1>1. /\ stack # <<>> /\ Top.does = "members" /\ stack' = Below
      /\ UNCHANGED <<ids, state, worklist, shallow, cached, rows, phase, issued, built>>
  BY DEF Extracted
<1>2. TypeOK /\ StackOK
  BY DEF Inv
<1>3. Injective' /\ IssuedOK' /\ Functional' /\ CachedOK' /\ PendingIsQueued'
  BY <1>1, TablesKept, CachedStay, QueueStays DEF Inv
<1>4. /\ Len(stack) \in Nat /\ Len(stack) >= 1 /\ stack \in Seq(Frame)
      /\ Top = stack[Len(stack)] /\ Below \in Seq(Frame) /\ Len(Below) = Len(stack) - 1
  BY <1>1, <1>2, TopOfStack DEF TypeOK
<1>5. Len(stack) = 1
  <2> SUFFICES ASSUME Len(stack) # 1 PROVE FALSE
    OBVIOUS
  <2>1. /\ Len(stack) - 1 \in DOMAIN stack /\ Len(stack) - 1 < Len(stack)
        /\ (Len(stack) - 1) + 1 = Len(stack)
    BY <1>4
  <2>2. FrameOK(Len(stack) - 1)
    BY <1>2, <2>1 DEF StackOK
  <2>3. stack[(Len(stack) - 1) + 1].does # "members"
    BY <2>1, <2>2 DEF FrameOK
  <2> QED BY <1>1, <1>4, <2>1, <2>3
<1>6. stack' = <<>>
  BY <1>1, <1>4, <1>5
<1>7. phase # "build"
  BY <1>1, <1>2, <1>4, <1>5 DEF StackOK
<1>8. StackOK'
  BY <1>1, <1>6, <1>7 DEF StackOK
<1> QED BY <1>1, <1>2, <1>3, <1>6, <1>8 DEF Inv, TypeOK

LEMMA IteratedKeeps ==
  ASSUME Inv, Iterated
  PROVE  Inv'
<1>1. /\ shallow' = FALSE /\ phase' = "idle" /\ stack = <<>>
      /\ UNCHANGED <<ids, state, worklist, cached, rows, stack, issued, built>>
  BY DEF Iterated, Iterating
<1>2. Injective' /\ IssuedOK' /\ Functional' /\ CachedOK' /\ PendingIsQueued'
  BY <1>1, TablesKept, CachedStay, QueueStays DEF Inv
<1>3. StackOK'
  BY <1>1 DEF StackOK
<1> QED BY <1>1, <1>2, <1>3 DEF Inv, TypeOK

\* A call from augmentAst.
LEMMA AskKeeps ==
  ASSUME Inv, NEW x \in Item, NEW p \in {"ask", "build"}, p = "build" => x \in Type,
         phase' = p, stack' = <<Called(x)>>, shallow' \in BOOLEAN,
         UNCHANGED <<ids, state, worklist, cached, rows, issued, built>>
  PROVE  Inv'
<1>1. Injective' /\ IssuedOK' /\ Functional' /\ CachedOK' /\ PendingIsQueued'
  BY TablesKept, CachedStay, QueueStays DEF Inv
<1>2. Called(x) \in Frame
  <2>1. <<>> \in Seq(Ref \cup {None})
    OBVIOUS
  <2> QED BY <2>1 DEF Called, Frame
<1>3. stack' \in Seq(Frame) /\ Len(stack') = 1 /\ DOMAIN stack' = {1} /\ stack'[1] = Called(x)
  BY <1>2
<1>4. Called(x).does = "string" /\ Called(x).item = x /\ Called(x).got = <<>>
  BY DEF Called
<1>5. FrameOK(1)'
  <2>1. Calls(stack[1])' = Parts[x]
    BY <1>3, <1>4 DEF Calls
  <2>2. Parts[x] \in Seq(Item \cup {None})
    BY TypeTableAssumption
  <2> QED BY <1>3, <1>4, <2>1, <2>2 DEF FrameOK
<1>6. StackOK'
  BY <1>3, <1>4, <1>5 DEF StackOK
<1> QED BY <1>1, <1>3, <1>6 DEF Inv, TypeOK

LEMMA BuildTypeKeeps ==
  ASSUME Inv, NEW t \in AstType, buildType(t)
  PROVE  Inv'
<1>1. t \in Item /\ t \in Type
  BY TypeTableAssumption DEF Item
<1>2. /\ phase' = "build" /\ stack' = <<Called(t)>> /\ shallow' \in BOOLEAN
      /\ UNCHANGED <<ids, state, worklist, cached, rows, issued, built>>
  BY DEF buildType
<1> QED BY <1>1, <1>2, AskKeeps

LEMMA GetOtherIdKeeps ==
  ASSUME Inv, NEW x \in AstSymbol \cup AstSignature, getOtherId(x)
  PROVE  Inv'
<1>1. x \in Item
  BY TypeTableAssumption DEF Item
<1>2. /\ phase' = "ask" /\ stack' = <<Called(x)>> /\ shallow' \in BOOLEAN
      /\ UNCHANGED <<ids, state, worklist, cached, rows, issued, built>>
  BY DEF getOtherId, Inv, TypeOK
<1> QED BY <1>1, <1>2, AskKeeps

LEMMA SetProgramKeeps ==
  ASSUME Inv, setProgram
  PROVE  Inv'
<1>1. /\ cached' = [y \in Symbol |-> None]
      /\ UNCHANGED <<ids, state, worklist, shallow, rows, stack, phase, issued, built>>
  BY DEF setProgram
<1>2. Injective' /\ IssuedOK' /\ Functional' /\ StackOK' /\ PendingIsQueued'
  BY <1>1, TablesKept, StackKept, QueueStays DEF Inv
<1>3. cached' \in [Symbol -> Ref \cup {None}] /\ CachedOK'
  BY <1>1 DEF CachedOK
<1> QED BY <1>1, <1>2, <1>3 DEF Inv, TypeOK

-----------------------------------------------------------------------------
(* The theorems.                                                           *)

LEMMA InitInv == Init => Inv
<1> SUFFICES ASSUME Init PROVE Inv
  OBVIOUS
<1>1. TypeOK
  <2>1. /\ ids \in [Kind -> Seq(Content)] /\ ids["type"] = <<>>
        /\ state = <<>> /\ Len(state) = 0 /\ Len(ids["type"]) = 0
    BY DEF Init, Kind
  <2>2. state \in Seq(TypeExtractionState) /\ worklist \in Seq([type: Type, id: Nat])
    BY DEF Init
  <2>3. rows \in Seq(Row) /\ stack \in Seq(Frame)
    BY DEF Init
  <2>4. cached \in [Symbol -> Ref \cup {None}] /\ shallow \in BOOLEAN
    BY DEF Init
  <2>5. phase = "idle" /\ issued = {} /\ built = {}
    BY DEF Init
  <2> QED BY <2>1, <2>2, <2>3, <2>4, <2>5 DEF TypeOK
<1>2. Injective
  BY DEF Init, Injective
<1>3. IssuedOK /\ Functional /\ CachedOK
  BY DEF Init, IssuedOK, Functional, CachedOK
<1>4. StackOK
  BY DEF Init, StackOK
<1>5. PendingIsQueued
  BY DEF Init, PendingIsQueued
<1> QED BY <1>1, <1>2, <1>3, <1>4, <1>5 DEF Inv

LEMMA NextInv == Inv /\ [Next]_vars => Inv'
<1> SUFFICES ASSUME Inv, [Next]_vars PROVE Inv'
  OBVIOUS
<1>1. CASE \E t \in AstType : buildType(t)
  BY <1>1, BuildTypeKeeps
<1>2. CASE \E x \in AstSymbol \cup AstSignature : getOtherId(x)
  BY <1>2, GetOtherIdKeeps
<1>3. CASE setProgram
  BY <1>3, SetProgramKeeps
<1>4. CASE Step
  BY <1>4, ReturnNullKeeps, ReturnCachedKeeps, CallKeeps, FindKeeps, DiscardKeeps, RegisterKeeps,
     ReturnIdKeeps, LeaveShallowKeeps, ExtractKeeps, ExtractedKeeps, IteratedKeeps DEF Step
<1>5. CASE UNCHANGED vars
  <2>1. UNCHANGED <<ids, state, worklist, shallow, cached, rows, stack, phase, issued, built>>
    BY <1>5 DEF vars
  <2>2. Injective' /\ IssuedOK' /\ Functional' /\ StackOK' /\ PendingIsQueued' /\ CachedOK'
    BY <2>1, TablesKept, StackKept, QueueStays, CachedStay DEF Inv
  <2> QED BY <2>1, <2>2 DEF Inv, TypeOK
<1> QED BY <1>1, <1>2, <1>3, <1>4, <1>5 DEF Next

LEMMA Invariant == Spec => []Inv
BY InitInv, NextInv, PTL DEF Spec

\* The tables, the worklist and the call stack have their types, and each type has a state,
\* in every program.
THEOREM TypeCorrect == Spec => []TypeOK
<1>1. Inv => TypeOK
  BY DEF Inv
<1> QED BY <1>1, Invariant, PTL

\* The numbers of types, symbols and signatures are canonical in every program:
\* equal strings have one number, and an item whose parts can all be numbered is told
\* the same one by every call.
THEOREM NumbersAreCanonical == Spec => []IdsAreCanonical
<1>1. Inv => IdsAreCanonical
  <2> SUFFICES ASSUME Inv PROVE IdsAreCanonical
    OBVIOUS
  <2>1. issued \subseteq Item \X Ref /\ IssuedOK /\ Functional /\ Injective
    BY DEF Inv, TypeOK
  <2>2. ASSUME NEW p \in issued PROVE p[1] \in Item /\ p[2] \in Ref /\ <<p[1], p[2]>> \in issued
    BY <2>1
  <2>3. ASSUME NEW p \in issued, NEW q \in issued, p[1] = q[1], p[1] \in Firm
        PROVE  p[2] = q[2]
    BY <2>1, <2>2, <2>3 DEF Functional
  <2>4. ASSUME NEW p \in issued
        PROVE  /\ p[2][2] < Len(ids[p[2][1]])
               /\ StringOf(p[2]).tag = Tag[p[1]] /\ Len(StringOf(p[2]).parts) = Len(Parts[p[1]])
               /\ \A i \in DOMAIN StringOf(p[2]).parts :
                    StringOf(p[2]).parts[i] # None =>
                      <<Parts[p[1]][i], StringOf(p[2]).parts[i]>> \in issued
    <3>1. Describes(p[2], p[1])
      BY <2>1, <2>2 DEF IssuedOK
    <3>2. StringOf(p[2]) \in Content
      BY <3>1 DEF Describes, StringOf, Inv, TypeOK, Ref
    <3>3. DOMAIN StringOf(p[2]).parts = 1 .. Len(Parts[p[1]])
      BY <3>1, <3>2 DEF Describes, Content
    <3> QED BY <3>1, <3>3 DEF Describes
  <2> QED BY <2>1, <2>3, <2>4 DEF IdsAreCanonical, Injective
<1> QED BY <1>1, Invariant, PTL

\* In every program a type waits in the worklist exactly when it is pending, and once.
THEOREM QueueIsExact == Spec => []PendingIsQueued
<1>1. Inv => PendingIsQueued
  BY DEF Inv
<1> QED BY <1>1, Invariant, PTL

-----------------------------------------------------------------------------
LEMMA StateAdvances ==
  ASSUME Inv, [Next]_vars, NEW n \in DOMAIN state
  PROVE  /\ n \in DOMAIN state'
         /\ \/ state'[n] = state[n]
            \/ state[n] \in {"PendingShallow", "PendingFull"} /\ state'[n] = "DoneFull"
            \/ state[n] = "PendingShallow" /\ state'[n] = "DoneShallow"
            \/ state[n] \in {"PendingShallow", "DoneShallow"} /\ state'[n] = "PendingFull"
<1>1. /\ TypeOK /\ PendingIsQueued /\ state \in Seq(TypeExtractionState) /\ Len(state) \in Nat
      /\ DOMAIN state = 1 .. Len(state) /\ DOMAIN worklist = 1 .. Len(worklist)
  BY DEF Inv, TypeOK
<1>2. CASE state' = state
  BY <1>2
<1>3. CASE Find
  <2>1. PICK m \in Found : Promote(m) \/ state' = state
    BY <1>3 DEF Find
  <2>2. state' = state \/ /\ state[m + 1] \in {"PendingShallow", "DoneShallow"}
                          /\ state' = [state EXCEPT ![m + 1] = "PendingFull"]
    BY <2>1 DEF Promote
  <2> QED BY <1>1, <2>2
<1>4. CASE Register
  <2>1. state' = state \/ state' = Append(state, Pending)
    BY <1>4 DEF Register
  <2>2. Pending \in TypeExtractionState
    BY DEF Pending, TypeExtractionState
  <2> QED BY <1>1, <2>1, <2>2
<1>5. CASE LeaveShallow
  <2>1. /\ worklist # <<>> /\ state[NextEntry.id + 1] = "PendingShallow"
        /\ state' = [state EXCEPT ![NextEntry.id + 1] = "DoneShallow"]
    BY <1>5 DEF LeaveShallow, StaysShallow
  <2> QED BY <1>1, <2>1
<1>6. CASE Extract
  <2>1. /\ worklist # <<>> /\ Pop
        /\ state' = [state EXCEPT ![NextEntry.id + 1] = "DoneFull"]
    BY <1>6 DEF Extract
  <2>2. state[NextEntry.id + 1] \in {"PendingShallow", "PendingFull"}
    BY <1>1, <2>1, QueueShrinks
  <2> QED BY <1>1, <2>1, <2>2
<1>7. Next => state' = state \/ Find \/ Register \/ LeaveShallow \/ Extract
  BY DEF Next, Step, buildType, getOtherId, setProgram, ReturnNull, ReturnCached, Call, Discard,
     ReturnId, Extracted, Iterated
<1> QED BY <1>2, <1>3, <1>4, <1>5, <1>6, <1>7 DEF vars

\* In every program what is extracted in full stays so, and nothing in full context
\* falls back.
THEOREM ExtractionAdvances == Spec => StatesAdvance
<1> DEFINE A == \A n \in DOMAIN state :
                  /\ n \in DOMAIN state'
                  /\ <<state[n], state'[n]>> \in
                       {<<"PendingShallow", "DoneShallow">>, <<"PendingShallow", "PendingFull">>,
                        <<"PendingShallow", "DoneFull">>, <<"DoneShallow", "PendingFull">>,
                        <<"PendingFull", "DoneFull">>} \cup {<<s, s>> : s \in TypeExtractionState}
<1>1. Inv /\ [Next]_vars => A
  <2> SUFFICES ASSUME Inv, [Next]_vars, NEW n \in DOMAIN state
               PROVE  /\ n \in DOMAIN state'
                      /\ <<state[n], state'[n]>> \in
                       {<<"PendingShallow", "DoneShallow">>, <<"PendingShallow", "PendingFull">>,
                        <<"PendingShallow", "DoneFull">>, <<"DoneShallow", "PendingFull">>,
                        <<"PendingFull", "DoneFull">>} \cup {<<s, s>> : s \in TypeExtractionState}
    OBVIOUS
  <2>1. state[n] \in TypeExtractionState
    BY DEF Inv, TypeOK
  <2> QED BY <2>1, StateAdvances
<1> HIDE DEF A
<1>2. Inv /\ [Next]_vars => [A]_vars
  BY <1>1
<1>3. Spec => [][A]_vars
  BY <1>2, Invariant, PTL DEF Spec
<1> QED BY <1>3 DEF StatesAdvance, A

-----------------------------------------------------------------------------
(* Closures.                                                               *)

\* Induction over the natural numbers, for a set.
LEMMA SetInduction ==
  ASSUME NEW S, 0 \in S, \A n \in Nat : n \in S => n + 1 \in S
  PROVE  \A n \in Nat : n \in S
<1> DEFINE R == {p \in Nat \X Nat : p[1] < p[2]}
           T == Nat \ S
<1>1. SUFFICES ASSUME T # {} PROVE FALSE
  OBVIOUS
<1>2. T \subseteq Nat /\ IsWellFoundedOn(R, Nat)
  BY NatLessThanWellFounded DEF OpToRel
<1> HIDE DEF R
<1>3. PICK x \in T : \A y \in T : ~ (<<y, x>> \in R)
  <2> HIDE DEF T
  <2> QED BY <1>1, <1>2, WFMin
<1>4. x \in Nat /\ x # 0 /\ x - 1 \in Nat
  OBVIOUS
<1>5. x - 1 \in T
  <2>1. x = (x - 1) + 1
    BY <1>4
  <2> QED BY <1>3, <1>4, <2>1
<1>6. <<x - 1, x>> \in R
  BY <1>4 DEF R
<1> QED BY <1>3, <1>5, <1>6

\* What follows from S in at most n steps.
Reaches(f, S, next) ==
  f = [n \in Nat |-> IF n = 0 THEN S ELSE f[n - 1] \cup UNION {next[x] : x \in f[n - 1]}]

\* The same up to m.
ReachesTo(f, m, S, next) ==
  /\ DOMAIN f = 0 .. m /\ f = [n \in 0 .. m |-> f[n]] /\ f[0] = S
  /\ \A n \in 1 .. m : f[n] = f[n - 1] \cup UNION {next[x] : x \in f[n - 1]}

\* Two such functions agree where both are defined.
LEMMA ReachIsUnique ==
  ASSUME NEW S, NEW next, NEW f, NEW g, NEW a \in Nat, NEW b \in Nat,
         ReachesTo(f, a, S, next), ReachesTo(g, b, S, next)
  PROVE  \A n \in Nat : n <= a /\ n <= b => f[n] = g[n]
<1> DEFINE T == {n \in Nat : n <= a /\ n <= b => f[n] = g[n]}
<1>1. 0 \in T
  BY DEF ReachesTo
<1>2. ASSUME NEW n \in Nat, n \in T PROVE n + 1 \in T
  <2> SUFFICES ASSUME n + 1 <= a, n + 1 <= b PROVE f[n + 1] = g[n + 1]
    OBVIOUS
  <2>1. n + 1 \in 1 .. a /\ n + 1 \in 1 .. b /\ (n + 1) - 1 = n /\ n <= a /\ n <= b
    OBVIOUS
  <2>2. f[n] = g[n]
    BY <1>2, <2>1
  <2>3. f[n + 1] = f[n] \cup UNION {next[x] : x \in f[n]}
    BY <2>1 DEF ReachesTo
  <2>4. g[n + 1] = g[n] \cup UNION {next[x] : x \in g[n]}
    BY <2>1 DEF ReachesTo
  <2> QED BY <2>2, <2>3, <2>4
<1> HIDE DEF T
<1>3. \A n \in Nat : n \in T
  BY <1>1, <1>2, SetInduction
<1> QED BY <1>3 DEF T

LEMMA ReachExistsTo ==
  ASSUME NEW S, NEW next
  PROVE  \A m \in Nat : \E f : ReachesTo(f, m, S, next)
<1> DEFINE T == {m \in Nat : \E f : ReachesTo(f, m, S, next)}
<1>1. 0 \in T
  <2> DEFINE f == [n \in 0 .. 0 |-> S]
  <2>1. ReachesTo(f, 0, S, next)
    BY DEF ReachesTo
  <2> QED BY <2>1
<1>2. ASSUME NEW m \in Nat, m \in T PROVE m + 1 \in T
  <2>1. PICK g : ReachesTo(g, m, S, next)
    BY <1>2
  <2> DEFINE last == g[m] \cup UNION {next[x] : x \in g[m]}
             f == [n \in 0 .. m + 1 |-> IF n = m + 1 THEN last ELSE g[n]]
  <2> HIDE DEF last
  <2>2. DOMAIN f = 0 .. m + 1 /\ f = [n \in 0 .. m + 1 |-> f[n]]
    OBVIOUS
  <2>3. f[m + 1] = last /\ \A n \in 0 .. m : f[n] = g[n]
    OBVIOUS
  <2>4. f[0] = S
    BY <2>1, <2>3 DEF ReachesTo
  <2>5. \A n \in 1 .. m + 1 : f[n] = f[n - 1] \cup UNION {next[x] : x \in f[n - 1]}
    <3> HIDE DEF f
    <3> SUFFICES ASSUME NEW n \in 1 .. m + 1
                 PROVE  f[n] = f[n - 1] \cup UNION {next[x] : x \in f[n - 1]}
      OBVIOUS
    <3>1. n - 1 \in 0 .. m /\ f[n - 1] = g[n - 1]
      BY <2>3
    <3>2. CASE n = m + 1
      <4>1. n - 1 = m /\ f[n] = last
        BY <2>3, <3>2
      <4> QED BY <3>1, <4>1 DEF last
    <3>3. CASE n # m + 1
      <4>1. n \in 1 .. m /\ n \in 0 .. m
        BY <3>3
      <4>2. f[n] = g[n] /\ g[n] = g[n - 1] \cup UNION {next[x] : x \in g[n - 1]}
        BY <2>1, <2>3, <4>1 DEF ReachesTo
      <4> QED BY <3>1, <4>2
    <3> QED BY <3>2, <3>3
  <2>6. ReachesTo(f, m + 1, S, next)
    <3> HIDE DEF f
    <3> QED BY <2>2, <2>4, <2>5 DEF ReachesTo
  <2> QED BY <2>6
<1> HIDE DEF T
<1>3. \A n \in Nat : n \in T
  BY <1>1, <1>2, SetInduction
<1> QED BY <1>3 DEF T

LEMMA ReachExists ==
  ASSUME NEW S, NEW next
  PROVE  \E f : Reaches(f, S, next)
<1> DEFINE G == [m \in Nat |-> CHOOSE f : ReachesTo(f, m, S, next)]
           f == [n \in Nat |-> G[n][n]]
<1>1. \A m \in Nat : ReachesTo(G[m], m, S, next)
  BY ReachExistsTo
<1> HIDE DEF G
<1>2. \A n \in Nat : f[n] = G[n][n]
  OBVIOUS
<1>3. f[0] = S
  <2>1. ReachesTo(G[0], 0, S, next)
    BY <1>1
  <2> QED BY <1>2, <2>1 DEF ReachesTo
<1>4. ASSUME NEW n \in Nat, n # 0
      PROVE  f[n] = f[n - 1] \cup UNION {next[x] : x \in f[n - 1]}
  <2>1. n - 1 \in Nat /\ n \in 1 .. n /\ n - 1 <= n /\ n - 1 <= n - 1
    BY <1>4
  <2>2. G[n][n] = G[n][n - 1] \cup UNION {next[x] : x \in G[n][n - 1]}
    <3>1. ReachesTo(G[n], n, S, next)
      BY <1>1
    <3> QED BY <2>1, <3>1 DEF ReachesTo
  <2>3. G[n][n - 1] = G[n - 1][n - 1]
    <3>1. ReachesTo(G[n], n, S, next) /\ ReachesTo(G[n - 1], n - 1, S, next)
      BY <1>1, <2>1
    <3> QED BY <2>1, <3>1, ReachIsUnique
  <2> QED BY <1>2, <2>1, <2>2, <2>3
<1>5. f = [n \in Nat |-> IF n = 0 THEN S ELSE f[n - 1] \cup UNION {next[x] : x \in f[n - 1]}]
  <2> DEFINE g == [n \in Nat |-> IF n = 0 THEN S ELSE f[n - 1] \cup UNION {next[x] : x \in f[n - 1]}]
  <2>1. DOMAIN f = Nat /\ f = [n \in Nat |-> f[n]]
    OBVIOUS
  <2> HIDE DEF f
  <2>2. ASSUME NEW n \in Nat PROVE f[n] = g[n]
    BY <1>3, <1>4
  <2>3. DOMAIN g = Nat /\ g = [n \in Nat |-> g[n]]
    OBVIOUS
  <2> HIDE DEF g
  <2>4. f = g
    BY <2>1, <2>2, <2>3
  <2> QED BY <2>4 DEF g
<1> QED BY <1>5 DEF Reaches

LEMMA ClosureIsReached ==
  ASSUME NEW S, NEW next
  PROVE  \E f : Reaches(f, S, next) /\ Closure(S, next) = f[Cardinality(DOMAIN next)]
<1> DEFINE f == CHOOSE g : Reaches(g, S, next)
<1>1. Reaches(f, S, next)
  BY ReachExists
<1>2. Closure(S, next) = f[Cardinality(DOMAIN next)]
  BY DEF Closure, Reaches
<1> QED BY <1>1, <1>2

LEMMA ReachSteps ==
  ASSUME NEW S, NEW next, NEW f, Reaches(f, S, next)
  PROVE  /\ f[0] = S
         /\ \A n \in Nat : f[n + 1] = f[n] \cup UNION {next[x] : x \in f[n]}
<1> DEFINE g == [n \in Nat |-> IF n = 0 THEN S ELSE f[n - 1] \cup UNION {next[x] : x \in f[n - 1]}]
<1>1. f = g
  BY DEF Reaches
<1>2. g[0] = S
  OBVIOUS
<1>3. ASSUME NEW n \in Nat PROVE g[n + 1] = f[n] \cup UNION {next[x] : x \in f[n]}
  <2>1. n + 1 \in Nat /\ n + 1 # 0 /\ (n + 1) - 1 = n
    OBVIOUS
  <2> QED BY <2>1
<1> HIDE DEF g
<1> QED BY <1>1, <1>2, <1>3

\* A set that contains S and what follows from its members contains the closure of S.
LEMMA ClosureInside ==
  ASSUME NEW S, NEW next, IsFiniteSet(DOMAIN next),
         NEW G, S \subseteq G, \A x \in G : next[x] \subseteq G
  PROVE  Closure(S, next) \subseteq G
<1>1. PICK f : Reaches(f, S, next) /\ Closure(S, next) = f[Cardinality(DOMAIN next)]
  BY ClosureIsReached
<1>2. f[0] = S /\ \A n \in Nat : f[n + 1] = f[n] \cup UNION {next[x] : x \in f[n]}
  BY <1>1, ReachSteps
<1> DEFINE T == {n \in Nat : f[n] \subseteq G}
<1>3. 0 \in T
  BY <1>2
<1>4. ASSUME NEW n \in Nat, n \in T PROVE n + 1 \in T
  BY <1>2, <1>4
<1> HIDE DEF T
<1>5. \A n \in Nat : n \in T
  BY <1>3, <1>4, SetInduction
<1>6. Cardinality(DOMAIN next) \in Nat
  BY FS_CardinalityType
<1> QED BY <1>1, <1>5, <1>6 DEF T

\* The closure contains S and what follows from its members: as long as that is not so,
\* each step adds a member, and there are no more than there are in the domain.
LEMMA ClosureIsClosed ==
  ASSUME NEW S, NEW next, IsFiniteSet(DOMAIN next), S \subseteq DOMAIN next,
         \A x \in DOMAIN next : next[x] \subseteq DOMAIN next
  PROVE  /\ S \subseteq Closure(S, next)
         /\ Closure(S, next) \subseteq DOMAIN next
         /\ \A x \in Closure(S, next) : next[x] \subseteq Closure(S, next)
<1> DEFINE D == DOMAIN next
           Closed(X) == \A x \in X : next[x] \subseteq X
<1>1. PICK f : Reaches(f, S, next) /\ Closure(S, next) = f[Cardinality(D)]
  BY ClosureIsReached
<1>2. f[0] = S /\ \A n \in Nat : f[n + 1] = f[n] \cup UNION {next[x] : x \in f[n]}
  BY <1>1, ReachSteps
<1> DEFINE T == {n \in Nat : /\ S \subseteq f[n] /\ f[n] \subseteq D
                             /\ Closed(f[n]) \/ Cardinality(f[n]) >= n}
<1>3. 0 \in T
  <2>1. IsFiniteSet(S) /\ Cardinality(S) \in Nat
    BY FS_Subset, FS_CardinalityType
  <2> QED BY <1>2, <2>1
<1>4. ASSUME NEW n \in Nat, n \in T PROVE n + 1 \in T
  <2>1. f[n + 1] = f[n] \cup UNION {next[x] : x \in f[n]}
    BY <1>2
  <2>2. S \subseteq f[n + 1] /\ f[n + 1] \subseteq D /\ f[n] \subseteq f[n + 1]
    BY <1>4, <2>1
  <2>3. CASE Closed(f[n])
    <3>1. f[n + 1] = f[n]
      BY <2>1, <2>3
    <3> QED BY <2>2, <2>3, <3>1
  <2>4. CASE ~Closed(f[n])
    <3>1. f[n + 1] # f[n]
      BY <2>1, <2>4
    <3>2. Cardinality(f[n]) >= n
      BY <1>4, <2>4
    <3>3. IsFiniteSet(f[n + 1])
      BY <2>2, FS_Subset
    <3>4. /\ IsFiniteSet(f[n]) /\ Cardinality(f[n]) \in Nat /\ Cardinality(f[n + 1]) \in Nat
          /\ Cardinality(f[n]) < Cardinality(f[n + 1])
      <4>1. IsFiniteSet(f[n]) /\ Cardinality(f[n]) <= Cardinality(f[n + 1])
             /\ (Cardinality(f[n]) = Cardinality(f[n + 1]) => f[n + 1] = f[n])
        BY <2>2, <3>3, FS_Subset
      <4>2. Cardinality(f[n]) \in Nat /\ Cardinality(f[n + 1]) \in Nat
        BY <3>3, <4>1, FS_CardinalityType
      <4> QED BY <3>1, <4>1, <4>2
    <3>5. Cardinality(f[n + 1]) >= n + 1
      BY <3>2, <3>4
    <3> QED BY <2>2, <3>5
  <2> QED BY <2>3, <2>4
<1>5. Cardinality(D) \in Nat
  BY FS_CardinalityType
<1>6. Cardinality(D) \in T
  <2> HIDE DEF T
  <2> QED BY <1>3, <1>4, <1>5, SetInduction
<1>7. Closed(f[Cardinality(D)])
  <2> SUFFICES ASSUME Cardinality(f[Cardinality(D)]) >= Cardinality(D)
               PROVE  Closed(f[Cardinality(D)])
    BY <1>6
  <2>1. f[Cardinality(D)] \subseteq D
    BY <1>6
  <2>2. /\ IsFiniteSet(f[Cardinality(D)])
        /\ Cardinality(f[Cardinality(D)]) <= Cardinality(D)
        /\ (Cardinality(f[Cardinality(D)]) = Cardinality(D) => D = f[Cardinality(D)])
    BY <2>1, FS_Subset
  <2>3. Cardinality(f[Cardinality(D)]) \in Nat
    BY <2>2, FS_CardinalityType
  <2>4. D = f[Cardinality(D)]
    BY <1>5, <2>2, <2>3
  <2>5. Closed(D)
    OBVIOUS
  <2> QED BY <2>4, <2>5
<1> QED BY <1>1, <1>6, <1>7

-----------------------------------------------------------------------------
(* Calls.                                                                  *)

\* The first frame is a call from augmentAst or the entry that is being extracted.
PhaseOK ==
  /\ phase = "idle" => stack = <<>>
  /\ phase = "iterate" /\ stack # <<>> => stack[1].does = "members"
  /\ phase \in {"ask", "build"} => stack # <<>> /\ stack[1].does # "members"

\* What a call has returned, or is about to.
Known(x, v) ==
  \/ <<x, v>> \in issued
  \/ \E j \in DOMAIN stack : stack[j].does = "after" /\ stack[j].item = x /\ stack[j].ref = v

\* Types wait as objects that have their number.
EntriesKnown ==
  \A i \in DOMAIN worklist : Known(worklist[i].type, <<"type", worklist[i].id>>)

\* What is asked for in full context is in F, and what in shallow context in H.
Context(F, H) == IF shallow THEN H ELSE F

FrameIn(j, F, H) ==
  IF stack[j].does = "members" THEN Ran(Members[stack[j].item]) \subseteq Context(F, H)
  ELSE stack[j].item \in Context(F, H)

\* A type that waits to be extracted in full is known as an object of F, though perhaps
\* not by the object in the worklist.
WaitingIn(F, H) ==
  \A i \in DOMAIN worklist :
    /\ worklist[i].type \in H
    /\ state[worklist[i].id + 1] = "PendingFull" =>
         \E x \in F \cap Type : Known(x, <<"type", worklist[i].id>>)

ContextOK ==
  /\ phase # "iterate" => ~shallow
  /\ ~shallow => \A n \in DOMAIN state : state[n] # "PendingShallow"

CutOK(F, H) ==
  /\ \A j \in DOMAIN stack : FrameIn(j, F, H)
  /\ \A p \in issued : p[1] \in H
  /\ WaitingIn(F, H)

-----------------------------------------------------------------------------
(* Full context.                                                           *)

\* Extracted in full, or waiting to be.
IsFull(n) ==
  \/ state[n + 1] = "DoneFull"
  \/ phase \in {"build", "iterate"} /\ state[n + 1] = "PendingFull"

\* A set of numbers with those in their strings, and all symbols and files.
FullSet(G) ==
  /\ G \subseteq Numbers
  /\ \A v \in Numbers : v[1] \in {"symbol", "file"} => v \in G
  /\ \A v \in G : Ran(StringOf(v).parts) \subseteq G
  /\ built \subseteq G
  /\ \A v \in G : v[1] = "type" => IsFull(v[2])
  /\ phase = "build" => \A j \in DOMAIN stack :
       /\ Ran(stack[j].got) \subseteq G
       /\ stack[j].does = "after" => stack[j].ref \in G

-----------------------------------------------------------------------------
(* Members.                                                                *)

\* How deep in strings of types the parts of x are asked for.
Inside(x, d) == IF x \in Type THEN d + 1 ELSE d

\* What has no string at its depth if S says so of its parts.
Failing(S) ==
  {p \in Item \X Nat :
     \/ p[1] \in Type /\ p[2] > MaxDepth
     \/ Tag[p[1]] = None
     \/ p[1] \in Unprintable
     \/ \E i \in DOMAIN Parts[p[1]] :
          /\ <<p[1], i>> \notin Optional
          /\ Parts[p[1]][i] = None \/ <<Parts[p[1]][i], Inside(p[1], p[2])>> \in S}

\* <<x, d>>: a call for x at depth d returns null, by finitely many of these rules.
Nulls ==
  {p \in Item \X Nat : \A S \in SUBSET (Item \X Nat) : Failing(S) \subseteq S => p \in S}

Fails(x, d) == x = None \/ <<x, d>> \in Nulls

\* typeRecursionDepth in the j-th of the frames s.
DepthIn(s, j) ==
  Cardinality({i \in 1 .. j - 1 : s[i].does = "string" /\ s[i].item \in Type})

\* A call returns null just for what fails at its depth.
FrameAnswers(s, j) ==
  /\ \A i \in DOMAIN s[j].got :
       s[j].got[i] = None <=> Fails(Calls(s[j])[i], DepthIn(s, j + 1))
  /\ s[j].does = "after" => ~Fails(s[j].item, DepthIn(s, j))

AnswersOK ==
  /\ \A j \in DOMAIN stack : FrameAnswers(stack, j)
  /\ \A p \in issued : ~Fails(p[1], 0)

IsMember(row, v) == row.does = "members" /\ row.from = v

HasRow(v, i, m) ==
  \E n \in DOMAIN rows : IsMember(rows[n], v) /\ rows[n].index = i /\ <<m, rows[n].to>> \in issued

\* A type is extracted once, and so is each of its members.
RowsOK ==
  /\ \A n \in DOMAIN rows : rows[n].does = "members" =>
       /\ rows[n].from[2] + 1 \in DOMAIN state
       /\ state[rows[n].from[2] + 1] = "DoneFull"
  /\ \A m, n \in DOMAIN rows :
       /\ rows[m].does = "members"
       /\ IsMember(rows[n], rows[m].from)
       /\ rows[m].index = rows[n].index
       => m = n

Extracting == stack # <<>> /\ stack[1].does = "members"

\* The type that is being extracted has rows for the answers it has got.
ExtractingOK ==
  Extracting =>
    /\ <<stack[1].item, stack[1].ref>> \in issued
    /\ stack[1].ref[2] + 1 \in DOMAIN state
    /\ state[stack[1].ref[2] + 1] = "DoneFull"
    /\ \A n \in DOMAIN rows :
         IsMember(rows[n], stack[1].ref) => rows[n].index \in DOMAIN stack[1].got
    /\ \A i \in DOMAIN stack[1].got :
         stack[1].got[i] # None => HasRow(stack[1].ref, i, Members[stack[1].item][i])

\* A type that was extracted has rows for the members of an object that has its number.
Finished(k) ==
  \E t \in Type :
    /\ <<t, <<"type", k>>>> \in issued
    /\ \A i \in DOMAIN Members[t] :
         Fails(Members[t][i], 0) \/ HasRow(<<"type", k>>, i, Members[t][i])

FinishedOK ==
  \A k \in Nat :
    k + 1 \in DOMAIN state /\ state[k + 1] = "DoneFull" /\ ~InExtraction(<<"type", k>>) => Finished(k)

MembersOK == RowsOK /\ ExtractingOK /\ FinishedOK

-----------------------------------------------------------------------------
(* What the steps do to the call stack.                                    *)

\* The answer to the call on top goes to the frame below, or out of the stack.
LEMMA ReturnShape ==
  ASSUME TypeOK, stack # <<>>, NEW v, Return(v)
  PROVE  /\ issued' = IF v = None THEN issued ELSE issued \cup {<<Top.item, v>>}
         /\ Len(stack') = Len(stack) - 1 /\ DOMAIN stack' = 1 .. Len(stack) - 1
         /\ \A j \in DOMAIN stack' :
              /\ j \in DOMAIN stack /\ j < Len(stack)
              /\ stack'[j] = IF j = Len(stack') THEN [stack[j] EXCEPT !.got = Append(@, v)]
                             ELSE stack[j]
         /\ Len(stack) = 1 => /\ rows' = rows
                              /\ phase' = IF phase = "build" THEN "iterate" ELSE "idle"
                              /\ built' = IF phase = "build" /\ v # None THEN built \cup {v}
                                          ELSE built
         /\ Len(stack) # 1 => /\ UNCHANGED <<phase, built>>
                              /\ rows' = IF stack[Len(stack')].does = "string" \/ v = None THEN rows
                                         ELSE Append(rows, [does |-> stack[Len(stack')].does,
                                                            from |-> stack[Len(stack')].ref,
                                                            index |-> Len(stack[Len(stack')].got) + 1,
                                                            to |-> v])
<1>1. /\ Len(stack) \in Nat /\ Len(stack) >= 1 /\ Below \in Seq(Frame)
      /\ Len(Below) = Len(stack) - 1 /\ \A j \in 1 .. Len(stack) - 1 : Below[j] = stack[j]
      /\ stack \in Seq(Frame) /\ DOMAIN stack = 1 .. Len(stack)
  BY TopOfStack DEF TypeOK
<1>2. issued' = IF v = None THEN issued ELSE issued \cup {<<Top.item, v>>}
  BY DEF Return
<1>3. CASE Below # <<>>
  <2>1. PICK n \in Nat : n = Len(Below) /\ n >= 1 /\ n = Len(stack) - 1 /\ DOMAIN Below = 1 .. n
    BY <1>1, <1>3
  <2>2. Receive(Below, v) /\ UNCHANGED <<phase, built>>
    BY <1>3 DEF Return
  <2>3. n \in 1 .. Len(stack) - 1
    BY <1>1, <2>1
  <2>4. Below[n] = stack[n]
    BY <1>1, <2>3
  <2>5. /\ stack' = [Below EXCEPT ![n] = [stack[n] EXCEPT !.got = Append(stack[n].got, v)]]
        /\ rows' = IF stack[n].does = "string" \/ v = None THEN rows
                   ELSE Append(rows, [does |-> stack[n].does, from |-> stack[n].ref,
                                      index |-> Len(stack[n].got) + 1, to |-> v])
    BY <2>1, <2>2, <2>4 DEF Receive
  <2>6. Len(stack') = n /\ DOMAIN stack' = 1 .. n
    BY <1>1, <2>1, <2>5
  <2>7. ASSUME NEW j \in DOMAIN stack'
        PROVE  /\ j \in DOMAIN stack /\ j < Len(stack)
               /\ stack'[j] = IF j = n THEN [stack[j] EXCEPT !.got = Append(@, v)] ELSE stack[j]
    <3>1. j \in 1 .. Len(stack) - 1 /\ j \in DOMAIN Below
      BY <2>1, <2>6
    <3>2. Below[j] = stack[j]
      BY <1>1, <3>1
    <3>3. j \in DOMAIN stack /\ j < Len(stack)
      BY <1>1, <3>1
    <3> QED BY <2>5, <3>1, <3>2, <3>3
  <2>8. Len(stack) # 1
    BY <2>1
  <2> QED BY <1>2, <2>1, <2>2, <2>5, <2>6, <2>7, <2>8
<1>4. CASE Below = <<>>
  <2>1. Len(stack) = 1
    BY <1>1, <1>4
  <2>2. /\ stack' = <<>> /\ rows' = rows
        /\ phase' = IF phase = "build" THEN "iterate" ELSE "idle"
        /\ built' = IF phase = "build" /\ v # None THEN built \cup {v} ELSE built
    BY <1>4 DEF Return
  <2>3. Len(stack') = 0 /\ DOMAIN stack' = {} /\ 1 .. Len(stack) - 1 = {} /\ Len(stack) - 1 = 0
    BY <2>1, <2>2
  <2> QED BY <1>2, <2>1, <2>2, <2>3
<1> QED BY <1>3, <1>4

\* A call puts a frame on top.
LEMMA PushShape ==
  ASSUME TypeOK, StackOK, Call, Calls(Top)[Len(Top.got) + 1] # None
  PROVE  \E x \in Item :
           /\ x \in Ran(Calls(Top)) /\ x = Calls(Top)[Len(Top.got) + 1]
           /\ Len(stack') = Len(stack) + 1 /\ DOMAIN stack' = 1 .. Len(stack) + 1
           /\ \A j \in DOMAIN stack : stack'[j] = stack[j]
           /\ stack'[Len(stack) + 1] = Called(x)
           /\ rows' = rows
<1> DEFINE x == Calls(Top)[Len(Top.got) + 1]
<1>1. /\ stack # <<>> /\ Len(Top.got) < Len(Calls(Top)) /\ stack' = Append(stack, Called(x))
      /\ rows' = rows
  BY DEF Call
<1>2. /\ Len(stack) \in Nat /\ Len(stack) \in DOMAIN stack /\ Top \in Frame
      /\ Top = stack[Len(stack)] /\ stack \in Seq(Frame)
  BY <1>1, TopOfStack DEF TypeOK
<1>3. Calls(Top) \in Seq(Item \cup {None}) /\ Len(Top.got) \in Nat
  <2>1. FrameOK(Len(stack))
    BY <1>2 DEF StackOK
  <2>2. Top.does = "members" => Top.item \in Type
    BY <1>2, <2>1 DEF FrameOK
  <2>3. Calls(Top) \in Seq(Item \cup {None})
    BY <1>2, <2>2, CallsAreItems
  <2>4. Top.got \in Seq(Ref \cup {None})
    BY <1>2 DEF Frame
  <2> QED BY <2>3, <2>4
<1>4. Len(Top.got) + 1 \in DOMAIN Calls(Top)
  BY <1>1, <1>3
<1>5. x \in Item /\ x \in Ran(Calls(Top))
  BY <1>3, <1>4 DEF Ran
<1> DEFINE f == Called(x)
<1>6. stack' = Append(stack, f)
  BY <1>1
<1> HIDE DEF f
<1>7. /\ Len(stack') = Len(stack) + 1 /\ DOMAIN stack' = 1 .. Len(stack) + 1
      /\ \A j \in DOMAIN stack : stack'[j] = stack[j]
      /\ stack'[Len(stack) + 1] = f
  BY <1>2, <1>6
<1> QED BY <1>1, <1>5, <1>7 DEF f

\* The compiler has nothing for the next member.
LEMMA NoneShape ==
  ASSUME TypeOK, Call, Calls(Top)[Len(Top.got) + 1] = None
  PROVE  /\ Len(stack') = Len(stack) /\ DOMAIN stack' = DOMAIN stack
         /\ \A j \in DOMAIN stack :
              stack'[j] = IF j = Len(stack) THEN [stack[j] EXCEPT !.got = Append(@, None)]
                          ELSE stack[j]
         /\ rows' = rows
<1>1. stack # <<>> /\ Receive(stack, None)
  BY DEF Call
<1>2. /\ Len(stack) \in Nat /\ Len(stack) \in DOMAIN stack /\ stack \in Seq(Frame)
  BY <1>1, TopOfStack DEF TypeOK
<1> DEFINE f == [stack[Len(stack)] EXCEPT !.got = Append(stack[Len(stack)].got, None)]
<1>3. stack' = [stack EXCEPT ![Len(stack)] = f] /\ rows' = rows
  BY <1>1 DEF Receive
<1>4. f = [stack[Len(stack)] EXCEPT !.got = Append(@, None)]
  OBVIOUS
<1> HIDE DEF f
<1>5. /\ Len(stack') = Len(stack) /\ DOMAIN stack' = DOMAIN stack
      /\ \A j \in DOMAIN stack : stack'[j] = IF j = Len(stack) THEN f ELSE stack[j]
  BY <1>2, <1>3
<1> QED BY <1>3, <1>4, <1>5

\* A new number.
LEMMA RegisterShape ==
  ASSUME TypeOK, Register
  PROVE  \E n \in Nat :
           /\ n = Len(ids[KindOf(Top.item)]) /\ KindOf(Top.item) \in Kind
           /\ Len(stack') = Len(stack) /\ DOMAIN stack' = DOMAIN stack
           /\ \A j \in DOMAIN stack :
                stack'[j] = IF j = Len(stack)
                              THEN [does |-> "after", item |-> Top.item,
                                    ref |-> <<KindOf(Top.item), n>>, got |-> <<>>]
                            ELSE stack[j]
           /\ stack'[Len(stack)].does = "after" /\ stack'[Len(stack)].item = Top.item
           /\ stack'[Len(stack)].ref = <<KindOf(Top.item), n>> /\ stack'[Len(stack)].got = <<>>
           /\ ids' = [ids EXCEPT ![KindOf(Top.item)] = Append(@, String)]
           /\ IF Top.item \in Type
                THEN state' = Append(state, Pending) /\ worklist' = Append(worklist, Entry(n))
                ELSE UNCHANGED <<state, worklist>>
<1>1. stack # <<>>
  BY DEF Register, HasString, InString
<1>2. /\ Len(stack) \in Nat /\ Len(stack) \in DOMAIN stack /\ stack \in Seq(Frame)
      /\ Top.item \in Item
  BY <1>1, TopOfStack DEF TypeOK, Frame
<1>3. KindOf(Top.item) \in Kind /\ (KindOf(Top.item) = "type" <=> Top.item \in Type)
  BY <1>2, KindOfItem
<1>4. PICK n \in Nat : n = Len(ids[KindOf(Top.item)])
  BY <1>3 DEF TypeOK
<1>5. /\ ids' = [ids EXCEPT ![KindOf(Top.item)] = Append(@, String)]
      /\ IF KindOf(Top.item) = "type"
           THEN /\ worklist' = Append(worklist, Entry(n))
                /\ state' = Append(state, Pending)
           ELSE UNCHANGED <<worklist, state>>
      /\ stack' = [stack EXCEPT ![Len(stack)] =
                     [does |-> "after", item |-> Top.item, ref |-> <<KindOf(Top.item), n>>,
                      got |-> <<>>]]
  BY <1>4 DEF Register
<1>6. /\ Len(stack') = Len(stack) /\ DOMAIN stack' = DOMAIN stack
      /\ \A j \in DOMAIN stack :
           stack'[j] = IF j = Len(stack)
                         THEN [does |-> "after", item |-> Top.item,
                               ref |-> <<KindOf(Top.item), n>>, got |-> <<>>]
                       ELSE stack[j]
  BY <1>2, <1>5
<1>7. stack'[Len(stack)] = [does |-> "after", item |-> Top.item,
                            ref |-> <<KindOf(Top.item), n>>, got |-> <<>>]
  BY <1>2, <1>6
<1>8. /\ stack'[Len(stack)].does = "after" /\ stack'[Len(stack)].item = Top.item
      /\ stack'[Len(stack)].ref = <<KindOf(Top.item), n>> /\ stack'[Len(stack)].got = <<>>
  BY <1>7
<1> QED BY <1>3, <1>4, <1>5, <1>6, <1>8

Returns(v) ==
  /\ stack # <<>> /\ Top.does \in {"string", "after"} /\ Return(v)
  /\ v \in Ref \cup {None}
  /\ v # None => Describes(v, Top.item)
  /\ Top.does = "after" => v = Top.ref /\ v \in Ref
  /\ UNCHANGED <<ids, shallow>>

LEMMA ReturningSteps ==
  ASSUME Inv, ReturnNull \/ ReturnCached \/ Find \/ Discard \/ ReturnId
  PROVE  \E v : Returns(v)
<1>1. CASE ReturnNull
  BY <1>1 DEF ReturnNull, InString, Returns
<1>2. CASE Discard
  BY <1>2 DEF Discard, HasString, InString, Returns
<1>3. CASE ReturnCached
  <2>1. Describes(cached[Top.item], Top.item) /\ cached[Top.item] \in Ref
    BY <1>3 DEF Inv, CachedOK, TypeOK, ReturnCached, HasId
  <2>2. Returns(cached[Top.item])
    BY <1>3, <2>1 DEF ReturnCached, InString, Returns
  <2> QED BY <2>2
<1>4. CASE ReturnId
  <2>1. FrameOK(Len(stack)) /\ Top = stack[Len(stack)] /\ stack # <<>> /\ Top.does = "after"
    BY <1>4, TopOfStack DEF Inv, StackOK, ReturnId
  <2>2. Describes(Top.ref, Top.item) /\ Top.ref \in Ref
    BY <2>1 DEF FrameOK, Describes
  <2>3. Returns(Top.ref)
    BY <1>4, <2>1, <2>2 DEF ReturnId, Returns
  <2> QED BY <2>3
<1>5. CASE Find
  <2>1. /\ HasString /\ stack # <<>> /\ Top.does = "string" /\ UNCHANGED <<ids, shallow>>
    BY <1>5 DEF Find, HasString, InString
  <2>2. PICK n \in Found : Return(<<KindOf(Top.item), n>>)
    BY <1>5 DEF Find
  <2>3. Top.item \in Item /\ KindOf(Top.item) \in Kind
    BY <2>1, TopOfStack, KindOfItem DEF Inv, Frame
  <2>4. n \in Nat /\ n < Len(ids[KindOf(Top.item)]) /\ ids[KindOf(Top.item)][n + 1] = String
    <3>1. ids[KindOf(Top.item)] \in Seq(Content)
      BY <2>3 DEF Inv, TypeOK
    <3> QED BY <3>1 DEF Found
  <2>5. Describes(<<KindOf(Top.item), n>>, Top.item) /\ <<KindOf(Top.item), n>> \in Ref
    BY <2>1, <2>4, StringDescribes DEF Describes
  <2>6. Returns(<<KindOf(Top.item), n>>)
    BY <2>1, <2>2, <2>5 DEF Returns
  <2> QED BY <2>6
<1> QED BY <1>1, <1>2, <1>3, <1>4, <1>5

\* The kinds of steps.
LEMMA StepKinds ==
  ASSUME [Next]_vars
  PROVE  \/ ReturnNull \/ ReturnCached \/ Find \/ Discard \/ ReturnId
         \/ Call \/ Register \/ LeaveShallow \/ Extract \/ Extracted \/ Iterated
         \/ \E t \in AstType : buildType(t)
         \/ \E x \in AstSymbol \cup AstSignature : getOtherId(x)
         \/ setProgram \/ UNCHANGED vars
BY DEF Next, Step

LEMMA IssuedGrows ==
  ASSUME [Next]_vars
  PROVE  issued \subseteq issued'
<1>1. ASSUME NEW v, Return(v) PROVE issued \subseteq issued'
  BY <1>1 DEF Return
<1>2. \/ issued' = issued
      \/ \E v : Return(v)
  BY DEF Next, Step, vars, ReturnNull, ReturnCached, Find, Discard, ReturnId, Call, Register,
     LeaveShallow, Extract, Extracted, Iterated, buildType, getOtherId, setProgram
<1> QED BY <1>1, <1>2

KnownThen(x, v) ==
  \/ <<x, v>> \in issued'
  \/ \E j \in DOMAIN stack' : stack'[j].does = "after" /\ stack'[j].item = x /\ stack'[j].ref = v

\* A call that knows its number keeps it until it returns it.
LEMMA KnownStays ==
  ASSUME Inv, PhaseOK, [Next]_vars, NEW x, NEW v, v # None, Known(x, v)
  PROVE  KnownThen(x, v)
<1>1. issued \subseteq issued'
  BY IssuedGrows
<1> SUFFICES ASSUME NEW j \in DOMAIN stack, stack[j].does = "after", stack[j].item = x,
                    stack[j].ref = v
             PROVE  KnownThen(x, v)
  BY <1>1 DEF Known, KnownThen
<1>2. /\ TypeOK /\ StackOK /\ stack # <<>> /\ Len(stack) \in Nat /\ DOMAIN stack = 1 .. Len(stack)
      /\ stack \in Seq(Frame) /\ Top = stack[Len(stack)] /\ stack[j] \in Frame
      /\ j \in 1 .. Len(stack)
  BY DEF Inv, TypeOK, Top
<1>3. ASSUME j \in DOMAIN stack', stack'[j] = stack[j]
             \/ \E w : stack'[j] = [stack[j] EXCEPT !.got = Append(@, w)]
      PROVE  KnownThen(x, v)
  <2>1. stack'[j].does = "after" /\ stack'[j].item = x /\ stack'[j].ref = v
    BY <1>2, <1>3 DEF Frame
  <2> QED BY <1>3, <2>1 DEF Known, KnownThen
<1>4. CASE ReturnNull \/ ReturnCached \/ Find \/ Discard \/ ReturnId
  <2>1. PICK w : Returns(w)
    BY <1>4, ReturningSteps
  <2>2. /\ Return(w) /\ Top.does \in {"string", "after"}
        /\ Top.does = "after" => w = Top.ref
    BY <2>1 DEF Returns
  <2>3. /\ issued' = IF w = None THEN issued ELSE issued \cup {<<Top.item, w>>}
        /\ DOMAIN stack' = 1 .. Len(stack) - 1
        /\ \A i \in DOMAIN stack' :
             stack'[i] = IF i = Len(stack') THEN [stack[i] EXCEPT !.got = Append(@, w)]
                         ELSE stack[i]
    <3>1. TypeOK /\ stack # <<>> /\ Return(w)
      BY <1>2, <2>2
    <3> QED BY <3>1, ReturnShape
  <2>4. CASE j = Len(stack)
    <3>1. Top.item = x /\ w = v
      BY <1>2, <2>2, <2>4
    <3> QED BY <2>3, <3>1 DEF Known, KnownThen
  <2>5. CASE j # Len(stack)
    <3>1. j \in DOMAIN stack'
      BY <1>2, <2>3, <2>5
    <3> QED BY <1>3, <2>3, <3>1
  <2> QED BY <2>4, <2>5
<1>5. CASE Call
  <2>1. CASE Calls(Top)[Len(Top.got) + 1] = None
    <3>1. j \in DOMAIN stack' /\ (stack'[j] = stack[j]
             \/ stack'[j] = [stack[j] EXCEPT !.got = Append(@, None)])
      BY <1>2, <1>5, <2>1, NoneShape
    <3> QED BY <1>3, <3>1
  <2>2. CASE Calls(Top)[Len(Top.got) + 1] # None
    <3>1. j \in DOMAIN stack' /\ stack'[j] = stack[j]
      BY <1>2, <1>5, <2>2, PushShape
    <3> QED BY <1>3, <3>1
  <2> QED BY <2>1, <2>2
<1>6. CASE Register
  <2>1. Top.does = "string" /\ j # Len(stack)
    BY <1>2, <1>6 DEF Register, HasString, InString
  <2>2. j \in DOMAIN stack' /\ stack'[j] = stack[j]
    BY <1>2, <1>6, <2>1, RegisterShape
  <2> QED BY <1>3, <2>2
<1>7. CASE Extracted
  <2>1. Top.does = "members" /\ stack' = Below /\ j # Len(stack)
    BY <1>2, <1>7 DEF Extracted
  <2>2. j \in DOMAIN stack' /\ stack'[j] = stack[j]
    BY <1>2, <2>1, TopOfStack
  <2> QED BY <1>3, <2>2
<1>8. CASE LeaveShallow \/ Iterated \/ setProgram \/ UNCHANGED vars
  <2>1. stack' = stack
    BY <1>8 DEF LeaveShallow, Iterated, setProgram, vars
  <2> QED BY <1>2, <1>3, <2>1
<1>9. ~Extract /\ (\A t : ~buildType(t)) /\ (\A y : ~getOtherId(y))
  BY <1>2 DEF Extract, Iterating, PhaseOK, buildType, getOtherId
<1> QED BY <1>4, <1>5, <1>6, <1>7, <1>8, <1>9, StepKinds

LEMMA PhaseKeeps ==
  ASSUME Inv, PhaseOK, [Next]_vars, Inv'
  PROVE  PhaseOK'
<1>1. /\ TypeOK /\ StackOK /\ Len(stack) \in Nat /\ DOMAIN stack = 1 .. Len(stack)
      /\ stack \in Seq(Frame) /\ stack' \in Seq(Frame) /\ Len(stack') \in Nat
  BY DEF Inv, TypeOK
<1>2. ASSUME phase' = phase, stack # <<>>, stack' # <<>>, stack'[1].does = stack[1].does
      PROVE  PhaseOK'
  BY <1>2 DEF PhaseOK
<1>3. CASE ReturnNull \/ ReturnCached \/ Find \/ Discard \/ ReturnId
  <2>1. PICK w : Returns(w)
    BY <1>3, ReturningSteps
  <2>2. TypeOK /\ stack # <<>> /\ Return(w) /\ Top.does \in {"string", "after"} /\ w \in Ref \cup {None}
    BY <1>1, <2>1 DEF Returns
  <2>3. /\ Len(stack') = Len(stack) - 1 /\ DOMAIN stack' = 1 .. Len(stack) - 1
        /\ \A i \in DOMAIN stack' :
             /\ i \in DOMAIN stack
             /\ stack'[i] = IF i = Len(stack') THEN [stack[i] EXCEPT !.got = Append(@, w)]
                            ELSE stack[i]
        /\ Len(stack) = 1 => phase' = IF phase = "build" THEN "iterate" ELSE "idle"
        /\ Len(stack) # 1 => phase' = phase
    BY <2>2, ReturnShape
  <2>4. CASE Len(stack) = 1
    <3>1. stack' = <<>>
      BY <1>1, <2>3, <2>4
    <3>2. phase' \in {"iterate", "idle"}
      BY <2>3, <2>4
    <3> QED BY <3>1, <3>2 DEF PhaseOK
  <2>5. CASE Len(stack) # 1
    <3>1. stack' # <<>> /\ 1 \in DOMAIN stack' /\ stack[1] \in Frame
      BY <1>1, <2>2, <2>3, <2>5
    <3>2. stack'[1].does = stack[1].does
      BY <2>3, <3>1 DEF Frame
    <3> QED BY <1>2, <2>2, <2>3, <2>5, <3>1, <3>2
  <2> QED BY <2>4, <2>5
<1>4. CASE Call
  <2>1. phase' = phase /\ stack # <<>> /\ 1 \in DOMAIN stack /\ stack[1] \in Frame
    BY <1>1, <1>4 DEF Call
  <2>2. CASE Calls(Top)[Len(Top.got) + 1] = None
    <3>1. /\ 1 \in DOMAIN stack'
          /\ stack'[1] = stack[1] \/ stack'[1] = [stack[1] EXCEPT !.got = Append(@, None)]
      BY <1>1, <1>4, <2>1, <2>2, NoneShape
    <3>2. stack'[1].does = stack[1].does /\ stack' # <<>>
      BY <2>1, <3>1 DEF Frame
    <3> QED BY <1>2, <2>1, <3>2
  <2>3. CASE Calls(Top)[Len(Top.got) + 1] # None
    <3>1. DOMAIN stack' = 1 .. Len(stack) + 1 /\ stack'[1] = stack[1]
      BY <1>1, <1>4, <2>1, <2>3, PushShape
    <3>2. stack' # <<>>
      BY <1>1, <3>1
    <3> QED BY <1>2, <2>1, <3>1, <3>2
  <2> QED BY <2>2, <2>3
<1>5. CASE Register
  <2>1. phase' = phase /\ stack # <<>> /\ 1 \in DOMAIN stack /\ Top = stack[Len(stack)]
        /\ Top.does = "string"
    BY <1>1, <1>5 DEF Register, HasString, InString, Top
  <2>2. PICK f : /\ f.does = "after" /\ DOMAIN stack' = DOMAIN stack
                 /\ \A j \in DOMAIN stack : stack'[j] = IF j = Len(stack) THEN f ELSE stack[j]
    <3>1. PICK n \in Nat :
            /\ DOMAIN stack' = DOMAIN stack
            /\ \A j \in DOMAIN stack :
                 stack'[j] = IF j = Len(stack)
                               THEN [does |-> "after", item |-> Top.item,
                                     ref |-> <<KindOf(Top.item), n>>, got |-> <<>>]
                             ELSE stack[j]
      BY <1>1, <1>5, RegisterShape
    <3> DEFINE f == [does |-> "after", item |-> Top.item, ref |-> <<KindOf(Top.item), n>>, got |-> <<>>]
    <3>2. f.does = "after"
      OBVIOUS
    <3>3. \A j \in DOMAIN stack : stack'[j] = IF j = Len(stack) THEN f ELSE stack[j]
      BY <3>1
    <3> HIDE DEF f
    <3> QED BY <3>1, <3>2, <3>3
  <2>3. stack' # <<>> /\ (stack'[1] = stack[1] \/ stack'[1].does = "after")
    BY <1>1, <2>1, <2>2
  <2>4. phase # "iterate" \/ stack'[1] = stack[1]
    <3>1. CASE Len(stack) = 1
      <4>1. stack[1].does = "string"
        BY <2>1, <3>1
      <4> QED BY <2>1, <4>1 DEF PhaseOK
    <3>2. CASE Len(stack) # 1
      BY <2>1, <2>2, <3>2
    <3> QED BY <3>1, <3>2
  <2> QED BY <2>1, <2>3, <2>4 DEF PhaseOK
<1>6. CASE Extracted
  <2>1. stack # <<>> /\ Top = stack[Len(stack)] /\ Top.does = "members" /\ stack' = Below /\ phase' = phase
    BY <1>6 DEF Extracted, Top
  <2>2. phase = "iterate"
    <3>1. phase \in {"idle", "ask", "build", "iterate"}
      BY <1>1 DEF TypeOK
    <3>2. ASSUME phase \in {"ask", "build"} PROVE FALSE
      <4>1. Len(stack) # 1
        BY <2>1, <3>2 DEF PhaseOK
      <4>2. Len(stack) - 1 \in DOMAIN stack /\ Len(stack) - 1 < Len(stack) /\ (Len(stack) - 1) + 1 = Len(stack)
        BY <1>1, <2>1, <4>1
      <4>3. FrameOK(Len(stack) - 1)
        BY <1>1, <4>2 DEF StackOK
      <4> QED BY <2>1, <4>2, <4>3 DEF FrameOK
    <3> QED BY <2>1, <3>1, <3>2 DEF PhaseOK
  <2>3. stack' = <<>> \/ stack'[1] = stack[1]
    BY <1>1, <2>1, TopOfStack
  <2> QED BY <2>1, <2>2, <2>3 DEF PhaseOK
<1>7. CASE LeaveShallow \/ setProgram \/ UNCHANGED vars
  BY <1>7 DEF LeaveShallow, setProgram, vars, PhaseOK
<1>8. CASE Iterated
  BY <1>8 DEF Iterated, Iterating, PhaseOK
<1>9. CASE Extract
  BY <1>9 DEF Extract, Iterating, PhaseOK
<1>10. CASE (\E t \in AstType : buildType(t)) \/ \E x \in AstSymbol \cup AstSignature : getOtherId(x)
  BY <1>10 DEF buildType, getOtherId, Called, PhaseOK
<1> QED BY <1>3, <1>4, <1>5, <1>6, <1>7, <1>8, <1>9, <1>10, StepKinds

LEMMA ContextKeeps ==
  ASSUME Inv, PhaseOK, ContextOK, [Next]_vars, Inv'
  PROVE  ContextOK'
<1>1. /\ TypeOK /\ StackOK /\ PendingIsQueued /\ shallow \in BOOLEAN
      /\ state \in Seq(TypeExtractionState) /\ Len(state) \in Nat /\ DOMAIN state = 1 .. Len(state)
      /\ stack \in Seq(Frame) /\ Len(stack) \in Nat /\ DOMAIN stack = 1 .. Len(stack)
  BY DEF Inv, TypeOK
<1>2. ASSUME shallow' = shallow, phase' = phase,
             ~shallow => \A n \in DOMAIN state' : state'[n] # "PendingShallow"
      PROVE  ContextOK'
  BY <1>2 DEF ContextOK
<1>3. CASE ReturnNull \/ ReturnCached \/ Find \/ Discard \/ ReturnId
  <2>1. PICK w : Returns(w)
    BY <1>3, ReturningSteps
  <2>2. TypeOK /\ stack # <<>> /\ Return(w) /\ Top.does \in {"string", "after"} /\ shallow' = shallow
    BY <1>1, <2>1 DEF Returns
  <2>3. /\ Len(stack) = 1 => phase' = IF phase = "build" THEN "iterate" ELSE "idle"
        /\ Len(stack) # 1 => phase' = phase
    BY <2>2, ReturnShape
  <2>4. phase' # "iterate" => ~shallow'
    <3>1. CASE Len(stack) # 1
      BY <2>2, <2>3, <3>1 DEF ContextOK
    <3>2. CASE Len(stack) = 1
      <4>1. stack[1].does # "members"
        BY <2>2, <3>2 DEF Top
      <4>2. phase # "iterate"
        BY <2>2, <4>1 DEF PhaseOK
      <4> QED BY <2>2, <4>2 DEF ContextOK
    <3> QED BY <3>1, <3>2
  <2>5. ASSUME ~shallow, NEW n \in DOMAIN state' PROVE state'[n] # "PendingShallow"
    <3>1. CASE state' = state
      BY <2>5, <3>1 DEF ContextOK
    <3>2. CASE Find
      <4>1. PICK m \in Found : Promote(m) \/ state' = state
        BY <3>2 DEF Find
      <4>2. state' = state \/ state' = [state EXCEPT ![m + 1] = "PendingFull"]
        BY <4>1 DEF Promote
      <4>3. n \in DOMAIN state /\ (state'[n] = state[n] \/ state'[n] = "PendingFull")
        BY <1>1, <2>5, <4>2
      <4> QED BY <2>5, <4>3 DEF ContextOK
    <3> QED BY <1>3, <3>1, <3>2 DEF ReturnNull, ReturnCached, Discard, ReturnId
  <2> QED BY <2>2, <2>4, <2>5 DEF ContextOK
<1>4. CASE Call \/ Extracted \/ setProgram \/ UNCHANGED vars
  BY <1>4 DEF Call, Extracted, setProgram, vars, ContextOK
<1>5. CASE Register
  <2>1. shallow' = shallow /\ phase' = phase /\ (state' = state \/ state' = Append(state, Pending))
    BY <1>5 DEF Register
  <2>2. ASSUME ~shallow, NEW n \in DOMAIN state' PROVE state'[n] # "PendingShallow"
    <3>1. Pending = "PendingFull"
      BY <2>2 DEF Pending
    <3>2. (n \in DOMAIN state /\ state'[n] = state[n]) \/ state'[n] = "PendingFull"
      BY <1>1, <2>1, <2>2, <3>1
    <3> QED BY <2>2, <3>2 DEF ContextOK
  <2> QED BY <1>2, <2>1, <2>2
<1>6. CASE LeaveShallow
  <2>1. /\ shallow' = shallow /\ phase' = phase
        /\ state' = [state EXCEPT ![NextEntry.id + 1] = "DoneShallow"]
    BY <1>6 DEF LeaveShallow
  <2>2. ASSUME ~shallow, NEW n \in DOMAIN state' PROVE state'[n] # "PendingShallow"
    <3>1. n \in DOMAIN state /\ (state'[n] = state[n] \/ state'[n] = "DoneShallow")
      BY <1>1, <2>1, <2>2
    <3> QED BY <2>2, <3>1 DEF ContextOK
  <2> QED BY <1>2, <2>1, <2>2
<1>7. CASE Extract
  <2>1. /\ worklist # <<>> /\ Pop /\ phase' = "iterate"
        /\ shallow' = IF NextEntry.type \in Alias THEN shallow
                      ELSE state[NextEntry.id + 1] = "PendingShallow" \/ NextEntry.type \in Expansive
        /\ state' = [state EXCEPT ![NextEntry.id + 1] = "DoneFull"]
    BY <1>7 DEF Extract, Iterating
  <2>2. NextEntry.type \in Type
    BY <1>1, <2>1, QueueShrinks
  <2>3. ~shallow' => ~shallow
    BY <2>1, <2>2 DEF Expansive
  <2>4. ASSUME ~shallow, NEW n \in DOMAIN state' PROVE state'[n] # "PendingShallow"
    <3>1. n \in DOMAIN state /\ (state'[n] = state[n] \/ state'[n] = "DoneFull")
      BY <1>1, <2>1, <2>4
    <3> QED BY <2>4, <3>1 DEF ContextOK
  <2> QED BY <2>1, <2>3, <2>4 DEF ContextOK
<1>8. CASE Iterated
  <2>1. ~shallow' /\ state' = state /\ worklist = <<>>
    BY <1>8 DEF Iterated
  <2>2. ASSUME NEW n \in DOMAIN state, state[n] = "PendingShallow" PROVE FALSE
    <3>1. (n - 1) + 1 = n
      BY <1>1, <2>2
    <3>2. IsPending(n - 1)
      BY <2>2, <3>1 DEF IsPending
    <3>3. PICK i \in DOMAIN worklist : worklist[i].id = n - 1
      BY <1>1, <2>2, <3>2 DEF PendingIsQueued
    <3> QED BY <2>1, <3>3
  <2> QED BY <2>1, <2>2 DEF ContextOK
<1>9. CASE (\E t \in AstType : buildType(t)) \/ \E x \in AstSymbol \cup AstSignature : getOtherId(x)
  BY <1>9 DEF buildType, getOtherId, ContextOK
<1> QED BY <1>3, <1>4, <1>5, <1>6, <1>7, <1>8, <1>9, StepKinds

\* What the call on top has just found or registered.
TopKnown(v) == /\ stack # <<>> /\ Top.does = "string" /\ Top.item \in Type
               /\ KnownThen(Top.item, v)

\* Where entries of the worklist, and types that wait in full context, come from.
LEMMA QueueStep ==
  ASSUME Inv, [Next]_vars, Inv'
  PROVE  /\ \A i \in DOMAIN worklist' :
              \/ i \in DOMAIN worklist /\ worklist'[i] = worklist[i]
              \/ worklist'[i].type = Top.item /\ TopKnown(<<"type", worklist'[i].id>>)
         /\ \A k \in DOMAIN state' : state'[k] = "PendingFull" =>
              \/ k \in DOMAIN state /\ state[k] = "PendingFull"
              \/ ~shallow /\ shallow' = shallow /\ TopKnown(<<"type", k - 1>>)
<1>1. /\ TypeOK /\ StackOK /\ PendingIsQueued
      /\ state \in Seq(TypeExtractionState) /\ Len(state) \in Nat /\ DOMAIN state = 1 .. Len(state)
      /\ worklist \in Seq([type: Type, id: Nat]) /\ Len(worklist) \in Nat
      /\ DOMAIN worklist = 1 .. Len(worklist)
      /\ stack \in Seq(Frame) /\ Len(stack) \in Nat /\ DOMAIN stack = 1 .. Len(stack)
  BY DEF Inv, TypeOK
<1>2. CASE UNCHANGED <<state, worklist>>
  BY <1>1, <1>2
<1>3. CASE Find
  <2>1. stack # <<>> /\ Top.does = "string" /\ shallow' = shallow
    BY <1>3 DEF Find, HasString, InString
  <2>2. PICK n \in Found :
          /\ IF Top.item \in Type THEN Promote(n) ELSE UNCHANGED <<state, worklist>>
          /\ Return(<<KindOf(Top.item), n>>)
    BY <1>3 DEF Find
  <2>3. CASE Top.item \notin Type
    BY <1>2, <2>2, <2>3
  <2>4. CASE Top.item \in Type
    <3>1. n \in Nat
      <4>1. Top.item \in Item
        BY <1>1, <2>1, TopOfStack DEF Frame
      <4>2. ids[KindOf(Top.item)] \in Seq(Content)
        BY <1>1, <4>1, KindOfItem DEF TypeOK
      <4> QED BY <4>2 DEF Found
    <3>2. KindOf(Top.item) = "type"
      BY <2>4 DEF KindOf
    <3>3. TopKnown(<<"type", n>>)
      <4>1. <<"type", n>> # None
        BY <3>1, TypeTableAssumption DEF Ref, Kind
      <4>2. <<Top.item, <<"type", n>>>> \in issued'
        BY <2>2, <3>2, <4>1 DEF Return
      <4> QED BY <2>1, <2>4, <4>2 DEF TopKnown, KnownThen
    <3>4. Promote(n)
      BY <2>2, <2>4
    <3>5. CASE shallow
      BY <1>2, <3>4, <3>5 DEF Promote
    <3>6. CASE ~shallow
      <4>1. /\ state' = state \/ state' = [state EXCEPT ![n + 1] = "PendingFull"]
            /\ worklist' = worklist \/ worklist' = Append(worklist, Entry(n))
        BY <3>4, <3>6 DEF Promote
      <4>2. ASSUME NEW i \in DOMAIN worklist'
            PROVE  \/ i \in DOMAIN worklist /\ worklist'[i] = worklist[i]
                   \/ worklist'[i].type = Top.item /\ TopKnown(<<"type", worklist'[i].id>>)
        <5>1. \/ i \in DOMAIN worklist /\ worklist'[i] = worklist[i]
              \/ worklist'[i] = Entry(n)
          BY <1>1, <4>1, <4>2
        <5>2. Entry(n).type = Top.item /\ Entry(n).id = n
          BY DEF Entry
        <5> QED BY <3>3, <5>1, <5>2
      <4>3. ASSUME NEW k \in DOMAIN state', state'[k] = "PendingFull"
            PROVE  \/ k \in DOMAIN state /\ state[k] = "PendingFull"
                   \/ ~shallow /\ shallow' = shallow /\ TopKnown(<<"type", k - 1>>)
        <5>1. k \in DOMAIN state
          BY <1>1, <4>1, <4>3
        <5>2. CASE k = n + 1
          <6>1. k - 1 = n
            BY <3>1, <5>2
          <6> QED BY <2>1, <3>3, <3>6, <6>1
        <5>3. CASE k # n + 1
          <6>1. state'[k] = state[k]
            BY <1>1, <4>1, <5>1, <5>3
          <6> QED BY <4>3, <5>1, <6>1
        <5> QED BY <5>2, <5>3
      <4> QED BY <4>2, <4>3
    <3> QED BY <3>5, <3>6
  <2> QED BY <2>3, <2>4
<1>4. CASE Register
  <2>1. stack # <<>> /\ Top.does = "string" /\ shallow' = shallow /\ Len(stack) \in DOMAIN stack
    BY <1>1, <1>4 DEF Register, HasString, InString
  <2>2. PICK n \in Nat :
          /\ n = Len(ids[KindOf(Top.item)]) /\ DOMAIN stack' = DOMAIN stack
          /\ stack'[Len(stack)] = [does |-> "after", item |-> Top.item,
                                   ref |-> <<KindOf(Top.item), n>>, got |-> <<>>]
          /\ IF Top.item \in Type
               THEN state' = Append(state, Pending) /\ worklist' = Append(worklist, Entry(n))
               ELSE UNCHANGED <<state, worklist>>
    BY <1>1, <1>4, <2>1, RegisterShape
  <2>3. CASE Top.item \notin Type
    BY <1>2, <2>2, <2>3
  <2>4. CASE Top.item \in Type
    <3>1. KindOf(Top.item) = "type" /\ n = Len(state)
      BY <1>1, <2>2, <2>4 DEF KindOf, TypeOK
    <3>2. TopKnown(<<"type", n>>)
      <4>1. /\ stack'[Len(stack)].does = "after" /\ stack'[Len(stack)].item = Top.item
            /\ stack'[Len(stack)].ref = <<"type", n>>
        BY <2>2, <3>1
      <4> QED BY <2>1, <2>2, <2>4, <4>1 DEF TopKnown, KnownThen
    <3>3. state' = Append(state, Pending) /\ worklist' = Append(worklist, Entry(n))
      BY <2>2, <2>4
    <3>4. ASSUME NEW i \in DOMAIN worklist'
          PROVE  \/ i \in DOMAIN worklist /\ worklist'[i] = worklist[i]
                 \/ worklist'[i].type = Top.item /\ TopKnown(<<"type", worklist'[i].id>>)
      <4>1. \/ i \in DOMAIN worklist /\ worklist'[i] = worklist[i]
            \/ worklist'[i] = Entry(n)
        BY <1>1, <3>3, <3>4
      <4>2. Entry(n).type = Top.item /\ Entry(n).id = n
        BY DEF Entry
      <4> QED BY <3>2, <4>1, <4>2
    <3>5. ASSUME NEW k \in DOMAIN state', state'[k] = "PendingFull"
          PROVE  \/ k \in DOMAIN state /\ state[k] = "PendingFull"
                 \/ ~shallow /\ shallow' = shallow /\ TopKnown(<<"type", k - 1>>)
      <4>1. \/ k \in DOMAIN state /\ state'[k] = state[k]
            \/ k = n + 1 /\ state'[k] = Pending
        BY <1>1, <3>1, <3>3, <3>5
      <4>2. CASE k = n + 1 /\ state'[k] = Pending
        <5>1. k - 1 = n /\ ~shallow
          BY <3>5, <4>2 DEF Pending
        <5> QED BY <2>1, <3>2, <5>1
      <4> QED BY <3>5, <4>1, <4>2
    <3> QED BY <3>4, <3>5
  <2> QED BY <2>3, <2>4
<1>5. CASE LeaveShallow \/ Extract
  <2>1. PICK d \in {"DoneShallow", "DoneFull"} :
          worklist # <<>> /\ Pop /\ state' = [state EXCEPT ![NextEntry.id + 1] = d]
    BY <1>5 DEF LeaveShallow, Extract
  <2>2. worklist' = SubSeq(worklist, 1, Len(worklist) - 1)
    BY <2>1 DEF Pop
  <2>3. \A i \in DOMAIN worklist' : i \in DOMAIN worklist /\ worklist'[i] = worklist[i]
    BY <1>1, <2>1, <2>2
  <2>4. \A k \in DOMAIN state' : k \in DOMAIN state /\ (state'[k] = state[k] \/ state'[k] = d)
    BY <1>1, <2>1
  <2> QED BY <2>1, <2>3, <2>4
<1>6. \/ Find \/ Register \/ LeaveShallow \/ Extract
      \/ UNCHANGED <<state, worklist>>
  BY StepKinds DEF ReturnNull, ReturnCached, Discard, ReturnId, Call, Extracted, Iterated, buildType,
     getOtherId, setProgram, vars
<1> QED BY <1>2, <1>3, <1>4, <1>5, <1>6

LEMMA EntriesKeep ==
  ASSUME Inv, PhaseOK, EntriesKnown, [Next]_vars, Inv'
  PROVE  EntriesKnown'
<1> SUFFICES ASSUME NEW i \in DOMAIN worklist'
             PROVE  KnownThen(worklist'[i].type, <<"type", worklist'[i].id>>)
  BY DEF EntriesKnown, Known, KnownThen
<1>1. CASE i \in DOMAIN worklist /\ worklist'[i] = worklist[i]
  <2>1. worklist[i].id \in Nat
    BY <1>1, Queued DEF Inv
  <2>2. <<"type", worklist[i].id>> # None
    BY <2>1, TypeTableAssumption DEF Ref, Kind
  <2>3. Known(worklist[i].type, <<"type", worklist[i].id>>)
    BY <1>1 DEF EntriesKnown
  <2>4. KnownThen(worklist[i].type, <<"type", worklist[i].id>>)
    BY <2>2, <2>3, KnownStays
  <2> QED BY <1>1, <2>4
<1>2. CASE worklist'[i].type = Top.item /\ TopKnown(<<"type", worklist'[i].id>>)
  BY <1>2 DEF TopKnown, KnownThen
<1> QED BY <1>1, <1>2, QueueStep

-----------------------------------------------------------------------------
(* The cut.                                                                *)

\* What follows in full context stays in F, and what follows in shallow context in H.
Contexts(F, H) ==
  /\ F \subseteq H /\ AstType \cup AstSymbol \cup AstSignature \subseteq F
  /\ \A x \in H : Ran(Parts[x]) \subseteq H /\ Ran(After[x]) \subseteq H
  /\ \A x \in F : Ran(Parts[x]) \subseteq F /\ Ran(After[x]) \subseteq F
  /\ \A x \in F \cap Type : Ran(Members[x]) \subseteq H
  /\ \A x \in F \cap Alias : Ran(Members[x]) \subseteq F
  /\ \A x \in H \cap AlwaysSafe : Ran(Members[x]) \subseteq H

LEMMA FramesStayIn ==
  ASSUME NEW F, NEW H, Contexts(F, H), OneTypePerNumber, Inv, PhaseOK, ContextOK, EntriesKnown,
         CutOK(F, H), [Next]_vars, Inv'
  PROVE  \A j \in DOMAIN stack' : FrameIn(j, F, H)'
<1>1. /\ TypeOK /\ StackOK /\ PendingIsQueued /\ shallow \in BOOLEAN
      /\ stack \in Seq(Frame) /\ Len(stack) \in Nat /\ DOMAIN stack = 1 .. Len(stack)
      /\ \A j \in DOMAIN stack : stack[j] \in Frame
  BY DEF Inv, TypeOK
<1>2. \A j \in DOMAIN stack : FrameIn(j, F, H)
  BY DEF CutOK
<1>3. stack # <<>> => Len(stack) \in DOMAIN stack /\ Top = stack[Len(stack)] /\ FrameIn(Len(stack), F, H)
  BY <1>1, <1>2 DEF Top
<1> SUFFICES ASSUME NEW j \in DOMAIN stack' PROVE FrameIn(j, F, H)'
  OBVIOUS
<1>4. ASSUME j \in DOMAIN stack, shallow' = shallow,
             stack'[j] = stack[j] \/ \E w : stack'[j] = [stack[j] EXCEPT !.got = Append(@, w)]
      PROVE  FrameIn(j, F, H)'
  <2>1. stack'[j].does = stack[j].does /\ stack'[j].item = stack[j].item
    BY <1>1, <1>4 DEF Frame
  <2> QED BY <1>2, <1>4, <2>1 DEF FrameIn, Context
<1>5. CASE ReturnNull \/ ReturnCached \/ Find \/ Discard \/ ReturnId
  <2>1. PICK w : Returns(w)
    BY <1>5, ReturningSteps
  <2>2. TypeOK /\ stack # <<>> /\ Return(w) /\ shallow' = shallow
    BY <1>1, <2>1 DEF Returns
  <2>3. j \in DOMAIN stack /\ (stack'[j] = stack[j] \/ stack'[j] = [stack[j] EXCEPT !.got = Append(@, w)])
    BY <2>2, ReturnShape
  <2> QED BY <1>4, <2>2, <2>3
<1>6. CASE Call
  <2>0. shallow' = shallow /\ stack # <<>>
    BY <1>6 DEF Call
  <2>1. CASE Calls(Top)[Len(Top.got) + 1] = None
    <3>1. /\ j \in DOMAIN stack
          /\ stack'[j] = stack[j] \/ stack'[j] = [stack[j] EXCEPT !.got = Append(@, None)]
      BY <1>1, <1>6, <2>1, NoneShape
    <3> QED BY <1>4, <2>0, <3>1
  <2>2. CASE Calls(Top)[Len(Top.got) + 1] # None
    <3>1. PICK x \in Item :
            /\ x \in Ran(Calls(Top)) /\ DOMAIN stack' = 1 .. Len(stack) + 1
            /\ \A i \in DOMAIN stack : stack'[i] = stack[i]
            /\ stack'[Len(stack) + 1] = Called(x)
      BY <1>1, <1>6, <2>2, PushShape
    <3>2. CASE j = Len(stack) + 1
      <4>1. stack'[j].does = "string" /\ stack'[j].item = x
        BY <3>1, <3>2 DEF Called
      <4>2. CASE Top.does = "members"
        <5>1. x \in Context(F, H)
          BY <1>3, <2>0, <3>1, <4>2 DEF FrameIn, Calls
        <5> QED BY <2>0, <4>1, <5>1 DEF FrameIn, Context
      <4>3. CASE Top.does # "members"
        <5>1. Top.item \in Context(F, H) /\ Top.does \in {"string", "after"}
          BY <1>1, <1>3, <2>0, <4>3 DEF FrameIn, Frame
        <5>2. x \in Ran(Parts[Top.item]) \cup Ran(After[Top.item])
          BY <3>1, <5>1 DEF Calls
        <5>3. x \in Context(F, H)
          BY <5>1, <5>2 DEF Context, Contexts
        <5> QED BY <2>0, <4>1, <5>3 DEF FrameIn, Context
      <4> QED BY <4>2, <4>3
    <3>3. CASE j # Len(stack) + 1
      <4>1. j \in DOMAIN stack
        BY <1>1, <3>1, <3>3
      <4> QED BY <1>4, <2>0, <3>1, <4>1
    <3> QED BY <3>2, <3>3
  <2> QED BY <2>1, <2>2
<1>7. CASE Register
  <2>0. shallow' = shallow /\ stack # <<>> /\ Top.does = "string"
    BY <1>7 DEF Register, HasString, InString
  <2>1. /\ j \in DOMAIN stack
        /\ j # Len(stack) => stack'[j] = stack[j]
        /\ j = Len(stack) => stack'[j].does = "after" /\ stack'[j].item = Top.item
    BY <1>1, <1>7, RegisterShape
  <2>2. CASE j = Len(stack)
    <3>1. Top.item \in Context(F, H)
      BY <1>3, <2>0 DEF FrameIn
    <3> QED BY <2>0, <2>1, <2>2, <3>1 DEF FrameIn, Context
  <2>3. CASE j # Len(stack)
    BY <1>4, <2>0, <2>1, <2>3
  <2> QED BY <2>2, <2>3
<1>8. CASE Extracted
  <2>1. stack # <<>> /\ stack' = Below /\ shallow' = shallow
    BY <1>8 DEF Extracted
  <2>2. j \in DOMAIN stack /\ stack'[j] = stack[j]
    BY <1>1, <2>1, TopOfStack
  <2> QED BY <1>4, <2>1, <2>2
<1>9. CASE LeaveShallow \/ setProgram \/ UNCHANGED vars
  <2>1. stack' = stack /\ shallow' = shallow
    BY <1>9 DEF LeaveShallow, setProgram, vars
  <2> QED BY <1>4, <2>1
<1>10. CASE Iterated
  <2>1. stack' = <<>>
    BY <1>10 DEF Iterated, Iterating
  <2> QED BY <2>1
<1>11. CASE (\E t \in AstType : buildType(t)) \/ \E x \in AstSymbol \cup AstSignature : getOtherId(x)
  <2>1. PICK x \in AstType \cup AstSymbol \cup AstSignature : stack' = <<Called(x)>> /\ ~shallow'
    BY <1>11 DEF buildType, getOtherId, ContextOK
  <2>2. j = 1 /\ stack'[j] = Called(x)
    BY <2>1
  <2>3. stack'[j].does = "string" /\ stack'[j].item = x
    BY <2>2 DEF Called
  <2> QED BY <2>1, <2>3 DEF FrameIn, Context, Contexts
<1>12. CASE Extract
  <2> DEFINE e == NextEntry
             v == <<"type", e.id>>
  <2>1. /\ worklist # <<>> /\ Pop /\ stack = <<>> /\ ~StaysShallow(e)
        /\ state' = [state EXCEPT ![e.id + 1] = "DoneFull"]
        /\ shallow' = IF e.type \in Alias THEN shallow
                      ELSE state[e.id + 1] = "PendingShallow" \/ e.type \in Expansive
        /\ stack' = <<[does |-> "members", item |-> e.type, ref |-> v, got |-> <<>>]>>
    BY <1>12 DEF Extract, Iterating
  <2>2. /\ e.type \in Type /\ e.id \in Nat /\ e.id + 1 \in DOMAIN state
        /\ state[e.id + 1] \in {"PendingShallow", "PendingFull"}
    BY <1>1, <2>1, QueueShrinks
  <2>3. PICK i \in DOMAIN worklist : worklist[i] = e
    <3>1. Len(worklist) \in DOMAIN worklist
      BY <1>1, <2>1 DEF TypeOK
    <3> QED BY <3>1 DEF NextEntry
  <2>4. \A x : Known(x, v) => <<x, v>> \in issued
    BY <2>1 DEF Known
  <2>5. <<e.type, v>> \in issued /\ e.type \in H
    BY <2>3, <2>4 DEF EntriesKnown, CutOK, WaitingIn
  <2>6. j = 1 /\ stack'[j].does = "members" /\ stack'[j].item = e.type
    BY <2>1
  <2>7. shallow' \/ (e.type \in Alias /\ ~shallow)
    BY <1>1, <2>1, <2>2 DEF Expansive
  <2>8. CASE state[e.id + 1] = "PendingFull"
    <3>1. PICK x \in F \cap Type : <<x, v>> \in issued
      BY <2>3, <2>4, <2>8 DEF CutOK, WaitingIn
    <3>2. Members[x] = Members[e.type] /\ (x \in Alias <=> e.type \in Alias)
      <4> DEFINE p == <<x, v>>
                 q == <<e.type, v>>
      <4>1. p \in issued /\ q \in issued /\ p[2] = q[2] /\ {p[1], q[1]} \subseteq Type
        BY <2>2, <2>5, <3>1
      <4>2. Members[p[1]] = Members[q[1]] /\ (p[1] \in Alias <=> q[1] \in Alias)
        BY <4>1 DEF OneTypePerNumber
      <4> QED BY <4>2
    <3>3. Ran(Members[e.type]) \subseteq H
      BY <3>1, <3>2 DEF Contexts
    <3>4. e.type \in Alias => Ran(Members[e.type]) \subseteq F
      BY <3>1, <3>2 DEF Contexts
    <3> QED BY <2>6, <2>7, <3>3, <3>4 DEF FrameIn, Context
  <2>9. CASE state[e.id + 1] = "PendingShallow"
    <3>1. e.type \in AlwaysSafe
      BY <2>1, <2>9 DEF StaysShallow
    <3>2. shallow
      BY <2>2, <2>9 DEF ContextOK
    <3>3. Ran(Members[e.type]) \subseteq H
      BY <2>5, <3>1 DEF Contexts
    <3> QED BY <2>6, <2>7, <3>2, <3>3 DEF FrameIn, Context
  <2> QED BY <2>2, <2>8, <2>9
<1> QED BY <1>5, <1>6, <1>7, <1>8, <1>9, <1>10, <1>11, <1>12, StepKinds

LEMMA CutKeeps ==
  ASSUME NEW F, NEW H, Contexts(F, H), OneTypePerNumber, Inv, PhaseOK, ContextOK, EntriesKnown,
         CutOK(F, H), [Next]_vars, Inv'
  PROVE  CutOK(F, H)'
<1>1. /\ TypeOK /\ StackOK /\ PendingIsQueued /\ shallow \in BOOLEAN
      /\ stack \in Seq(Frame) /\ Len(stack) \in Nat /\ DOMAIN stack = 1 .. Len(stack)
  BY DEF Inv, TypeOK
<1>2. stack # <<>> /\ Top.does # "members" => Top.item \in Context(F, H) /\ Top.item \in H
  <2>1. stack # <<>> => Len(stack) \in DOMAIN stack
    BY <1>1
  <2>2. stack # <<>> => FrameIn(Len(stack), F, H)
    BY <2>1 DEF CutOK
  <2> QED BY <2>2 DEF FrameIn, Top, Context, Contexts
<1>3. \A p \in issued' : p[1] \in H
  <2>1. \A p \in issued : p[1] \in H
    BY DEF CutOK
  <2>2. CASE ReturnNull \/ ReturnCached \/ Find \/ Discard \/ ReturnId
    <3>1. PICK w : Returns(w)
      BY <2>2, ReturningSteps
    <3>2. stack # <<>> /\ Return(w) /\ Top.does # "members"
      BY <3>1 DEF Returns
    <3>3. issued' = issued \/ issued' = issued \cup {<<Top.item, w>>}
      BY <3>2 DEF Return
    <3> QED BY <1>2, <2>1, <3>2, <3>3
  <2>3. CASE issued' = issued
    BY <2>1, <2>3
  <2> QED BY <2>2, <2>3, StepKinds DEF vars, Call, Register,
       LeaveShallow, Extract, Extracted, Iterated, buildType, getOtherId, setProgram
<1>4. WaitingIn(F, H)'
  <2> SUFFICES ASSUME NEW i \in DOMAIN worklist'
               PROVE  /\ worklist'[i].type \in H
                      /\ state'[worklist'[i].id + 1] = "PendingFull" =>
                           \E x \in F \cap Type : KnownThen(x, <<"type", worklist'[i].id>>)
    BY DEF WaitingIn, Known, KnownThen
  <2>1. worklist'[i].type \in H
    <3>1. CASE i \in DOMAIN worklist /\ worklist'[i] = worklist[i]
      BY <3>1 DEF CutOK, WaitingIn
    <3>2. CASE worklist'[i].type = Top.item /\ TopKnown(<<"type", worklist'[i].id>>)
      BY <1>2, <3>2 DEF TopKnown
    <3> QED BY <3>1, <3>2, QueueStep
  <2> DEFINE k == worklist'[i].id + 1
             v == <<"type", worklist'[i].id>>
  <2>2. worklist'[i].id \in Nat /\ k \in DOMAIN state' /\ k - 1 = worklist'[i].id
    <3> DEFINE S == [type: Type, id: Nat]
    <3>0. worklist' \in Seq(S) /\ PendingIsQueued'
      BY DEF Inv, TypeOK
    <3>1. worklist'[i].id \in Nat /\ k \in DOMAIN state'
      <4>1. k \in DOMAIN state'
        BY <3>0 DEF PendingIsQueued
      <4>2. worklist'[i] \in S
        <5> HIDE DEF S
        <5> QED BY <3>0
      <4> QED BY <4>1, <4>2
    <3> QED BY <3>1
  <2>3. v # None
    BY <2>2, TypeTableAssumption DEF Ref, Kind
  <2>4. ASSUME state'[k] = "PendingFull" PROVE \E x \in F \cap Type : KnownThen(x, v)
    <3>1. CASE k \in DOMAIN state /\ state[k] = "PendingFull"
      <4>1. PICK m \in DOMAIN worklist : worklist[m].id = worklist'[i].id
        <5>1. IsPending(k - 1) /\ (k - 1) + 1 = k
          BY <2>2, <3>1 DEF IsPending
        <5> QED BY <1>1, <2>2, <3>1, <5>1 DEF PendingIsQueued
      <4>2. PICK x \in F \cap Type : Known(x, v)
        BY <3>1, <4>1 DEF CutOK, WaitingIn
      <4>3. KnownThen(x, v)
        BY <2>3, <4>2, KnownStays
      <4> QED BY <4>3
    <3>2. CASE ~shallow /\ TopKnown(<<"type", k - 1>>)
      <4>1. Top.item \in F \cap Type /\ KnownThen(Top.item, v)
        BY <1>2, <2>2, <3>2 DEF TopKnown, Context
      <4> QED BY <4>1
    <3> QED BY <2>2, <2>4, <3>1, <3>2, QueueStep
  <2> QED BY <2>1, <2>4
<1> QED BY <1>3, <1>4, FramesStayIn DEF CutOK

CallInv == Inv /\ PhaseOK /\ ContextOK /\ EntriesKnown

LEMMA CallsInvariant == Spec => []CallInv
<1>1. Init => CallInv
  <2>1. Init => PhaseOK /\ ContextOK /\ EntriesKnown
    BY DEF Init, PhaseOK, ContextOK, EntriesKnown
  <2> QED BY <2>1, InitInv DEF CallInv
<1>2. CallInv /\ [Next]_vars => CallInv'
  BY NextInv, PhaseKeeps, ContextKeeps, EntriesKeep DEF CallInv
<1> QED BY <1>1, <1>2, PTL DEF Spec

LEMMA ExtractsItems ==
  ASSUME NEW S, S \subseteq Type
  PROVE  /\ DOMAIN Extracts(S) = Item
         /\ \A x \in Item : /\ Extracts(S)[x] \subseteq Item
                            /\ Ran(Parts[x]) \subseteq Extracts(S)[x]
                            /\ Ran(After[x]) \subseteq Extracts(S)[x]
                            /\ x \in S => Ran(Members[x]) \subseteq Extracts(S)[x]
<1>1. ASSUME NEW s \in Seq(Item \cup {None}) PROVE Ran(s) \subseteq Item
  <2>1. \A i \in DOMAIN s : s[i] \in Item \cup {None}
    OBVIOUS
  <2> QED BY <2>1 DEF Ran
<1>2. ASSUME NEW x \in Item
      PROVE  /\ Ran(Parts[x]) \subseteq Item /\ Ran(After[x]) \subseteq Item
             /\ x \in S => Ran(Members[x]) \subseteq Item
  <2>1. Parts[x] \in Seq(Item \cup {None}) /\ After[x] \in Seq(Symbol)
    BY TypeTableAssumption
  <2>2. x \in S => Members[x] \in Seq(Item \cup {None})
    BY TypeTableAssumption
  <2>3. Ran(After[x]) \subseteq Item
    <3>1. \A i \in DOMAIN After[x] : After[x][i] \in Symbol
      BY <2>1
    <3> QED BY <3>1 DEF Ran, Item
  <2> QED BY <1>1, <2>1, <2>2, <2>3
<1>3. ASSUME NEW x \in Item
      PROVE  Extracts(S)[x] = Ran(Parts[x]) \cup Ran(After[x]) \cup
                              (IF x \in S THEN Ran(Members[x]) ELSE {})
  BY DEF Extracts
<1>4. DOMAIN Extracts(S) = Item
  BY DEF Extracts
<1> QED BY <1>2, <1>3, <1>4

LEMMA ContextsAreClosed ==
  ASSUME IsFiniteSet(Item)
  PROVE  Contexts(FullContext, ShallowContext)
<1> DEFINE A == AstType \cup AstSymbol \cup AstSignature
           S == (Type \ Expansive) \cup Alias
           F == FullContext
           M == UNION {Ran(Members[t]) : t \in F \cap Type}
           H == ShallowContext
<1>1. A \subseteq Item /\ S \subseteq Type /\ AlwaysSafe \subseteq Type /\ Alias \subseteq S
  BY TypeTableAssumption DEF Item
<1>2. /\ A \subseteq F /\ F \subseteq Item
      /\ \A x \in F : Extracts(S)[x] \subseteq F
  <2> HIDE DEF A, S
  <2>1. /\ DOMAIN Extracts(S) = Item
        /\ \A x \in DOMAIN Extracts(S) : Extracts(S)[x] \subseteq DOMAIN Extracts(S)
    BY <1>1, ExtractsItems
  <2>2. F = Closure(A, Extracts(S))
    BY DEF FullContext, A, S
  <2> HIDE DEF F
  <2> DEFINE next == Extracts(S)
  <2>3. /\ IsFiniteSet(DOMAIN next) /\ A \subseteq DOMAIN next
        /\ \A x \in DOMAIN next : next[x] \subseteq DOMAIN next
    BY <1>1, <2>1
  <2> HIDE DEF next
  <2>4. /\ A \subseteq Closure(A, next) /\ Closure(A, next) \subseteq DOMAIN next
        /\ \A x \in Closure(A, next) : next[x] \subseteq Closure(A, next)
    BY <2>3, ClosureIsClosed
  <2> QED BY <2>1, <2>2, <2>4 DEF next
<1>3. M \subseteq Item
  <2> HIDE DEF F
  <2> SUFFICES ASSUME NEW t \in F \cap Type PROVE Ran(Members[t]) \subseteq Item
    OBVIOUS
  <2>1. t \in Item /\ {t} \subseteq Type
    BY <1>2
  <2>2. /\ Extracts({t})[t] \subseteq Item
        /\ t \in {t} => Ran(Members[t]) \subseteq Extracts({t})[t]
    BY <2>1, ExtractsItems
  <2> QED BY <2>2
<1>4. /\ F \cup M \subseteq H /\ H \subseteq Item
      /\ \A x \in H : Extracts(AlwaysSafe)[x] \subseteq H
  <2>2. H = Closure(F \cup M, Extracts(AlwaysSafe))
    BY DEF ShallowContext
  <2> HIDE DEF F, H, M
  <2> DEFINE next == Extracts(AlwaysSafe)
             B == F \cup M
  <2>3. /\ IsFiniteSet(DOMAIN next) /\ B \subseteq DOMAIN next /\ DOMAIN next = Item
        /\ \A x \in DOMAIN next : next[x] \subseteq DOMAIN next
    BY <1>1, <1>2, <1>3, ExtractsItems
  <2> HIDE DEF next
  <2>4. /\ B \subseteq Closure(B, next) /\ Closure(B, next) \subseteq DOMAIN next
        /\ \A x \in Closure(B, next) : next[x] \subseteq Closure(B, next)
    <3> HIDE DEF B
    <3> QED BY <2>3, ClosureIsClosed
  <2> QED BY <2>2, <2>3, <2>4 DEF next
<1> HIDE DEF S
<1>5. \A x \in F : /\ Ran(Parts[x]) \subseteq F /\ Ran(After[x]) \subseteq F
                   /\ x \in S => Ran(Members[x]) \subseteq F
  <2> HIDE DEF F
  <2> SUFFICES ASSUME NEW x \in F
               PROVE  /\ Ran(Parts[x]) \subseteq F /\ Ran(After[x]) \subseteq F
                      /\ x \in S => Ran(Members[x]) \subseteq F
    OBVIOUS
  <2>1. /\ Ran(Parts[x]) \subseteq Extracts(S)[x] /\ Ran(After[x]) \subseteq Extracts(S)[x]
        /\ x \in S => Ran(Members[x]) \subseteq Extracts(S)[x]
    BY <1>1, <1>2, ExtractsItems
  <2>2. Extracts(S)[x] \subseteq F
    BY <1>2
  <2> QED BY <2>1, <2>2
<1>6. \A x \in H : /\ Ran(Parts[x]) \subseteq H /\ Ran(After[x]) \subseteq H
                   /\ x \in AlwaysSafe => Ran(Members[x]) \subseteq H
  <2> HIDE DEF H
  <2> SUFFICES ASSUME NEW x \in H
               PROVE  /\ Ran(Parts[x]) \subseteq H /\ Ran(After[x]) \subseteq H
                      /\ x \in AlwaysSafe => Ran(Members[x]) \subseteq H
    OBVIOUS
  <2>1. /\ Ran(Parts[x]) \subseteq Extracts(AlwaysSafe)[x]
        /\ Ran(After[x]) \subseteq Extracts(AlwaysSafe)[x]
        /\ x \in AlwaysSafe => Ran(Members[x]) \subseteq Extracts(AlwaysSafe)[x]
    BY <1>1, <1>4, ExtractsItems
  <2>2. Extracts(AlwaysSafe)[x] \subseteq H
    BY <1>4
  <2> QED BY <2>1, <2>2
<1>7. \A x \in F \cap Type : Ran(Members[x]) \subseteq H
  BY <1>4
<1> HIDE DEF F, H, M
<1>8. Contexts(F, H)
  BY <1>1, <1>2, <1>4, <1>5, <1>6, <1>7 DEF Contexts
<1> QED BY <1>8 DEF F, H

\* Of a finite set of items no more get a number than the code of main.ts wants: those that
\* syntax trees mention, their parts, what they have as members, and what can be expanded
\* without end being reached, if objects with one number are one type.
THEOREM ExpansionStops ==
  ASSUME IsFiniteSet(Item)
  PROVE  Spec /\ []OneTypePerNumber => []ExpansionIsCut
<1>1. Contexts(FullContext, ShallowContext)
  BY ContextsAreClosed
<1> DEFINE Cut == CutOK(FullContext, ShallowContext)
<1>2. Init => Cut
  BY DEF Init, CutOK, WaitingIn
<1>4. CallInv /\ CallInv' /\ OneTypePerNumber /\ Cut /\ [Next]_vars => Cut'
  BY <1>1, CutKeeps DEF CallInv
<1>3. Cut => ExpansionIsCut
  BY DEF CutOK, ExpansionIsCut
<1> HIDE DEF Cut
<1> QED BY <1>2, <1>3, <1>4, CallsInvariant, PTL DEF Spec

-----------------------------------------------------------------------------
(* Full context.                                                           *)

\* The numbers of the tables t.
LEMMA NumberIn ==
  ASSUME NEW t, \A k \in Kind : Len(t[k]) \in Nat, NEW v
  PROVE  v \in UNION {{k} \X (0 .. Len(t[k]) - 1) : k \in Kind} <=> v \in Ref /\ v[2] < Len(t[v[1]])
<1>1. ASSUME NEW k \in Kind, v \in {k} \X (0 .. Len(t[k]) - 1)
      PROVE  v \in Ref /\ v[2] < Len(t[v[1]])
  <2>1. v[1] = k /\ v[2] \in 0 .. Len(t[k]) - 1 /\ v = <<k, v[2]>>
    BY <1>1
  <2>2. v[2] \in Nat /\ v[2] < Len(t[k])
    BY <1>1, <2>1
  <2> QED BY <2>1, <2>2 DEF Ref
<1>2. ASSUME v \in Ref, v[2] < Len(t[v[1]])
      PROVE  v[1] \in Kind /\ v \in {v[1]} \X (0 .. Len(t[v[1]]) - 1)
  <2>1. v[1] \in Kind /\ v[2] \in Nat /\ v = <<v[1], v[2]>>
    BY <1>2 DEF Ref
  <2>2. v[2] \in 0 .. Len(t[v[1]]) - 1
    BY <1>2, <2>1
  <2> QED BY <2>1, <2>2
<1> QED BY <1>1, <1>2

LEMMA NumberOf ==
  ASSUME TypeOK, NEW v
  PROVE  v \in Numbers <=> v \in Ref /\ v[2] < Len(ids[v[1]])
<1>1. \A k \in Kind : Len(ids[k]) \in Nat
  BY DEF TypeOK
<1> QED BY <1>1, NumberIn DEF Numbers

LEMMA NumberThen ==
  ASSUME TypeOK', NEW v
  PROVE  v \in Numbers' <=> v \in Ref /\ v[2] < Len(ids'[v[1]])
<1>1. \A k \in Kind : Len(ids'[k]) \in Nat
  BY DEF TypeOK
<1> QED BY <1>1, NumberIn DEF Numbers

LEMMA NumbersAreFinite ==
  ASSUME TypeOK
  PROVE  IsFiniteSet(Numbers)
<1> DEFINE N(k) == {k} \X (0 .. Len(ids[k]) - 1)
<1>1. ASSUME NEW k \in Kind PROVE IsFiniteSet(N(k))
  <2>1. Len(ids[k]) \in Nat
    BY <1>1 DEF TypeOK
  <2>2. IsFiniteSet(0 .. Len(ids[k]) - 1)
    BY <2>1, FS_Interval
  <2>3. IsFiniteSet({k})
    BY FS_Singleton
  <2> QED BY <2>2, <2>3, FS_Product
<1>2. Numbers = ((N("type") \cup N("symbol")) \cup N("signature")) \cup N("file")
  BY DEF Numbers, Kind
<1>3. IsFiniteSet(N("type")) /\ IsFiniteSet(N("symbol")) /\ IsFiniteSet(N("signature"))
      /\ IsFiniteSet(N("file"))
  BY <1>1 DEF Kind
<1> HIDE DEF N
<1>4. IsFiniteSet(N("type") \cup N("symbol"))
  BY <1>3, FS_Union
<1>5. IsFiniteSet((N("type") \cup N("symbol")) \cup N("signature"))
  BY <1>3, <1>4, FS_Union
<1> QED BY <1>2, <1>3, <1>5, FS_Union

LEMMA StaysBuilding ==
  ASSUME CallInv, [Next]_vars, phase \in {"build", "iterate"}
  PROVE  \/ phase' \in {"build", "iterate"}
         \/ worklist = <<>> /\ state' = state
<1>1. /\ TypeOK /\ PhaseOK /\ stack \in Seq(Frame) /\ Len(stack) \in Nat
  BY DEF CallInv, Inv, TypeOK
<1>2. CASE ReturnNull \/ ReturnCached \/ Find \/ Discard \/ ReturnId
  <2>1. PICK w : Returns(w)
    BY <1>2, ReturningSteps DEF CallInv
  <2>2. TypeOK /\ stack # <<>> /\ Return(w) /\ Top.does # "members"
    BY <1>1, <2>1 DEF Returns
  <2>3. /\ Len(stack) = 1 => phase' = IF phase = "build" THEN "iterate" ELSE "idle"
        /\ Len(stack) # 1 => phase' = phase
    BY <2>2, ReturnShape
  <2>4. CASE Len(stack) = 1
    <3>1. stack[1].does # "members"
      BY <2>2, <2>4 DEF Top
    <3>2. phase = "build"
      BY <1>1, <2>2, <3>1 DEF PhaseOK
    <3> QED BY <2>3, <2>4, <3>2
  <2>5. CASE Len(stack) # 1
    <3>1. phase' = phase
      BY <2>3, <2>5
    <3> QED BY <3>1
  <2> QED BY <2>4, <2>5
<1>3. CASE Call \/ Register \/ LeaveShallow \/ Extract \/ Extracted \/ UNCHANGED vars
  BY <1>3 DEF Call, Register, LeaveShallow, Extract, Extracted, vars
<1>4. CASE Iterated
  BY <1>4 DEF Iterated
<1>5. (\A t : ~buildType(t)) /\ (\A x : ~getOtherId(x)) /\ ~setProgram
  BY DEF buildType, getOtherId, setProgram
<1> QED BY <1>2, <1>3, <1>4, <1>5, StepKinds

\* What is extracted in full, or waits to be before buildType returns, stays so.
LEMMA FullStays ==
  ASSUME CallInv, [Next]_vars, NEW n \in Nat, n + 1 \in DOMAIN state, IsFull(n)
  PROVE  n + 1 \in DOMAIN state' /\ IsFull(n)'
<1>1. /\ n + 1 \in DOMAIN state'
      /\ \/ state'[n + 1] = state[n + 1]
         \/ state[n + 1] \in {"PendingShallow", "PendingFull"} /\ state'[n + 1] = "DoneFull"
         \/ state[n + 1] = "PendingShallow" /\ state'[n + 1] = "DoneShallow"
         \/ state[n + 1] \in {"PendingShallow", "DoneShallow"} /\ state'[n + 1] = "PendingFull"
  BY StateAdvances DEF CallInv
<1>2. CASE state[n + 1] = "DoneFull"
  BY <1>1, <1>2 DEF IsFull
<1>3. CASE phase \in {"build", "iterate"} /\ state[n + 1] = "PendingFull"
  <2>1. worklist # <<>>
    <3>1. IsPending(n) /\ (n + 1) - 1 = n
      BY <1>3 DEF IsPending
    <3>2. PICK i \in DOMAIN worklist : worklist[i].id = n
      BY <3>1 DEF CallInv, Inv, PendingIsQueued
    <3> QED BY <3>2
  <2>2. phase' \in {"build", "iterate"}
    BY <1>3, <2>1, StaysBuilding
  <2> QED BY <1>1, <1>3, <2>2 DEF IsFull
<1> QED BY <1>2, <1>3 DEF IsFull

\* What is needed where no number is new: the numbers that are returned in full context
\* are full, and are in the set already or put into it.
LEMMA FullWhereNoNew ==
  ASSUME CallInv, CallInv', [Next]_vars, NEW G, FullSet(G),
         ids' = ids, NEW w, w \in Numbers \cup {None},
         w # None /\ phase = "build" =>
           /\ Ran(StringOf(w).parts) \subseteq G
           /\ w[1] = "type" => IsFull(w[2])',
         built' \subseteq IF w = None \/ phase # "build" THEN built ELSE built \cup {w},
         phase' = "build" =>
           \A j \in DOMAIN stack' :
             \/ stack'[j].got = <<>> /\ stack'[j].does # "after"
             \/ /\ phase = "build" /\ j \in DOMAIN stack
                /\ stack'[j].does = stack[j].does /\ stack'[j].ref = stack[j].ref
                /\ \/ stack'[j].got = stack[j].got
                   \/ stack'[j].got = Append(stack[j].got, w)
  PROVE  \E L : FullSet(L)'
<1> PICK K : K = IF w = None \/ phase # "build" THEN G ELSE G \cup {w}
  OBVIOUS
<1>1. TypeOK /\ TypeOK' /\ G \subseteq Numbers /\ Numbers' = Numbers
      /\ \A v \in Numbers : StringOf(v)' = StringOf(v)
  BY DEF CallInv, Inv, FullSet, Numbers, StringOf
<1>2. G \subseteq K /\ K \subseteq Numbers' /\ \A v \in Numbers' : v[1] \in {"symbol", "file"} => v \in K
  BY <1>1 DEF FullSet
<1>3. ASSUME NEW v \in K PROVE Ran(StringOf(v)'.parts) \subseteq K
  <2>1. CASE v \in G
    <3>1. StringOf(v)' = StringOf(v) /\ Ran(StringOf(v).parts) \subseteq G
      BY <1>1, <2>1 DEF FullSet
    <3> QED BY <1>2, <3>1
  <2>2. CASE v \notin G
    <3>1. v = w /\ w # None /\ phase = "build" /\ w \in Numbers
      BY <2>2
    <3>2. StringOf(v)' = StringOf(v) /\ Ran(StringOf(v).parts) \subseteq G
      BY <1>1, <3>1
    <3> QED BY <1>2, <3>2
  <2> QED BY <2>1, <2>2
<1>4. built' \subseteq K
  BY DEF FullSet
<1>5. ASSUME NEW v \in K, v[1] = "type" PROVE IsFull(v[2])'
  <2>1. CASE v \in G
    <3>1. IsFull(v[2]) /\ v \in Numbers
      BY <1>1, <1>5, <2>1 DEF FullSet
    <3>2. v[2] \in Nat /\ v[2] < Len(ids["type"])
      BY <1>1, <1>5, <3>1, NumberOf DEF Ref
    <3>3. v[2] + 1 \in DOMAIN state
      BY <1>1, <3>2 DEF TypeOK
    <3>4. ASSUME NEW n \in Nat, n + 1 \in DOMAIN state, IsFull(n) PROVE IsFull(n)'
      BY <3>4, FullStays
    <3> QED BY <3>1, <3>2, <3>3, <3>4
  <2>2. CASE v \notin G
    <3>1. v = w /\ w # None /\ phase = "build"
      BY <2>2
    <3> QED BY <1>5, <3>1
  <2> QED BY <2>1, <2>2
<1>6. ASSUME phase' = "build", NEW j \in DOMAIN stack'
      PROVE  /\ Ran(stack'[j].got) \subseteq K
             /\ stack'[j].does = "after" => stack'[j].ref \in K
  <2>1. CASE stack'[j].got = <<>> /\ stack'[j].does # "after"
    BY <2>1 DEF Ran
  <2>2. CASE /\ phase = "build" /\ j \in DOMAIN stack
             /\ stack'[j].does = stack[j].does /\ stack'[j].ref = stack[j].ref
             /\ \/ stack'[j].got = stack[j].got
                \/ stack'[j].got = Append(stack[j].got, w)
    <3>1. /\ Ran(stack[j].got) \subseteq G
          /\ stack[j].does = "after" => stack[j].ref \in G
      BY <2>2 DEF FullSet
    <3>2. stack[j].got \in Seq(Ref \cup {None})
      <4>1. stack[j] \in Frame
        BY <1>1, <2>2 DEF TypeOK
      <4> QED BY <4>1 DEF Frame
    <3>3. CASE stack'[j].got = stack[j].got
      BY <1>2, <2>2, <3>1, <3>3
    <3>4. CASE stack'[j].got = Append(stack[j].got, w)
      <4>1. \A i \in DOMAIN stack'[j].got :
              (i \in DOMAIN stack[j].got /\ stack'[j].got[i] = stack[j].got[i]) \/ stack'[j].got[i] = w
        BY <3>2, <3>4
      <4>2. Ran(stack'[j].got) \subseteq Ran(stack[j].got) \cup ({w} \ {None})
        BY <4>1 DEF Ran
      <4>3. {w} \ {None} \subseteq K
        BY <2>2
      <4> QED BY <1>2, <2>2, <3>1, <4>2, <4>3
    <3> QED BY <2>2, <3>3, <3>4
  <2> QED BY <1>6, <2>1, <2>2
<1>7. FullSet(K)'
  BY <1>2, <1>3, <1>4, <1>5, <1>6 DEF FullSet
<1> QED BY <1>7

\* What a call returns in full context is full.
LEMMA ReturnedIsFull ==
  ASSUME CallInv, CallInv', [Next]_vars, NEW G, FullSet(G),
         ReturnNull \/ ReturnCached \/ Find \/ Discard \/ ReturnId
  PROVE  \E w \in Numbers \cup {None} :
           /\ stack # <<>> /\ Return(w) /\ ids' = ids
           /\ w # None /\ phase = "build" =>
                /\ Ran(StringOf(w).parts) \subseteq G
                /\ w[1] = "type" => IsFull(w[2])'
<1>1. /\ TypeOK /\ StackOK /\ Inv /\ Inv' /\ Len(stack) \in Nat /\ DOMAIN stack = 1 .. Len(stack)
      /\ stack \in Seq(Frame)
  BY DEF CallInv, Inv, TypeOK
<1>2. ASSUME NEW w \in G, w[1] = "type" PROVE IsFull(w[2])'
  <2>1. IsFull(w[2]) /\ w \in Numbers
    BY <1>2 DEF FullSet
  <2>2. w[2] \in Nat /\ w[2] < Len(ids["type"])
    BY <1>1, <1>2, <2>1, NumberOf DEF Ref
  <2>3. w[2] + 1 \in DOMAIN state
    BY <1>1, <2>2 DEF TypeOK
  <2>4. ASSUME NEW n \in Nat, n + 1 \in DOMAIN state, IsFull(n) PROVE IsFull(n)'
    BY <2>4, FullStays
  <2> QED BY <2>1, <2>2, <2>3, <2>4
<1>3. \A w \in G : w \in Numbers /\ Ran(StringOf(w).parts) \subseteq G
  BY DEF FullSet
<1>4. CASE ReturnNull \/ Discard
  <2>1. stack # <<>> /\ Return(None) /\ ids' = ids
    BY <1>4 DEF ReturnNull, Discard, HasString, InString
  <2> QED BY <2>1
<1>5. CASE ReturnCached
  <2> DEFINE w == cached[Top.item]
  <2>1. /\ stack # <<>> /\ Return(w) /\ ids' = ids
        /\ Top.item \in Symbol /\ w # None
    BY <1>5 DEF ReturnCached, InString, HasId
  <2>2. Describes(w, Top.item)
    BY <1>1, <2>1 DEF Inv, CachedOK
  <2>3. w[1] = "symbol" /\ w \in Numbers
    <3>1. w \in Ref /\ w[2] < Len(ids[w[1]]) /\ w[1] = KindOf(Top.item)
      BY <2>2 DEF Describes
    <3>2. KindOf(Top.item) = "symbol"
      BY <2>1, KindOfItem DEF Item
    <3> HIDE DEF w
    <3> QED BY <1>1, <3>1, <3>2, NumberOf
  <2>4. w \in G
    BY <2>3 DEF FullSet
  <2> HIDE DEF w
  <2> QED BY <1>2, <1>3, <2>1, <2>3, <2>4
<1>6. CASE ReturnId
  <2>1. stack # <<>> /\ Top.does = "after" /\ Return(Top.ref) /\ ids' = ids
    BY <1>6 DEF ReturnId
  <2>2. Len(stack) \in DOMAIN stack /\ Top = stack[Len(stack)]
    BY <1>1, <2>1 DEF Top
  <2>3. Describes(Top.ref, Top.item)
    <3>1. FrameOK(Len(stack))
      BY <1>1, <2>2 DEF StackOK
    <3> QED BY <2>1, <2>2, <3>1 DEF FrameOK
  <2>4. Top.ref \in Numbers
    BY <1>1, <2>3, NumberOf DEF Describes
  <2>5. phase = "build" => Top.ref \in G
    BY <2>1, <2>2 DEF FullSet
  <2> QED BY <1>2, <1>3, <2>1, <2>4, <2>5
<1>7. CASE Find
  <2>1. /\ HasString /\ stack # <<>> /\ Top.does = "string" /\ ids' = ids /\ shallow' = shallow
    BY <1>7 DEF Find, HasString, InString
  <2>2. PICK n \in Found :
          /\ IF Top.item \in Type THEN Promote(n) ELSE UNCHANGED <<state, worklist>>
          /\ Return(<<KindOf(Top.item), n>>)
    BY <1>7 DEF Find
  <2>3. Top.item \in Item /\ KindOf(Top.item) \in Kind
    BY <1>1, <2>1, TopOfStack, KindOfItem DEF Frame
  <2>4. n \in Nat /\ n < Len(ids[KindOf(Top.item)]) /\ ids[KindOf(Top.item)][n + 1] = String
    <3>1. ids[KindOf(Top.item)] \in Seq(Content)
      BY <1>1, <2>3 DEF TypeOK
    <3> QED BY <3>1 DEF Found
  <2> DEFINE w == <<KindOf(Top.item), n>>
  <2>5. w \in Numbers
    <3>1. w \in Ref /\ w[2] < Len(ids[w[1]])
      BY <2>3, <2>4 DEF Ref
    <3> HIDE DEF w
    <3> QED BY <1>1, <3>1, NumberOf
  <2>6. ASSUME phase = "build" PROVE Ran(StringOf(w).parts) \subseteq G
    <3>1. StringOf(w).parts = Top.got
      BY <2>4 DEF StringOf, String
    <3>2. Len(stack) \in DOMAIN stack /\ Top = stack[Len(stack)]
      BY <1>1, <2>1 DEF Top
    <3> QED BY <2>6, <3>1, <3>2 DEF FullSet
  <2>7. ASSUME phase = "build", w[1] = "type" PROVE IsFull(n)'
    <3>1. Top.item \in Type /\ KindOf(Top.item) = "type"
      BY <2>3, <2>7, KindOfItem
    <3>2. Promote(n) /\ ~shallow
      BY <2>2, <2>7, <3>1 DEF CallInv, ContextOK
    <3>3. /\ n + 1 \in DOMAIN state /\ state[n + 1] \in TypeExtractionState
          /\ state \in Seq(TypeExtractionState)
      BY <1>1, <2>4, <3>1 DEF TypeOK
    <3>4. state'[n + 1] \in {"PendingFull", "DoneFull"}
      BY <3>2, <3>3 DEF Promote, TypeExtractionState
    <3>5. phase' \in {"build", "iterate"}
      <4>1. Return(w) /\ stack # <<>> /\ TypeOK
        BY <1>1, <2>1, <2>2
      <4>2. phase' = phase \/ phase' = IF phase = "build" THEN "iterate" ELSE "idle"
        BY <4>1, ReturnShape
      <4> QED BY <2>7, <4>2
    <3> QED BY <3>4, <3>5 DEF IsFull
  <2>8. w[2] = n
    OBVIOUS
  <2>9. Return(w)
    BY <2>2
  <2>10. ASSUME NEW u, u = n, phase = "build", w[1] = "type" PROVE IsFull(u)'
    BY <2>7, <2>10
  <2> HIDE DEF w
  <2> QED BY <2>1, <2>5, <2>6, <2>8, <2>9, <2>10
<1> QED BY <1>4, <1>5, <1>6, <1>7

\* A frame in which a step has put nothing, or the answer w.
LEMMA FullAfterReturn ==
  ASSUME CallInv, CallInv', [Next]_vars, NEW G, FullSet(G),
         ReturnNull \/ ReturnCached \/ Find \/ Discard \/ ReturnId
  PROVE  \E L : FullSet(L)'
<1>1. PICK w \in Numbers \cup {None} :
        /\ stack # <<>> /\ Return(w) /\ ids' = ids
        /\ w # None /\ phase = "build" =>
             /\ Ran(StringOf(w).parts) \subseteq G
             /\ w[1] = "type" => IsFull(w[2])'
  BY ReturnedIsFull
<1>2. TypeOK /\ stack \in Seq(Frame) /\ Len(stack) \in Nat
  BY DEF CallInv, Inv, TypeOK
<1>3. /\ DOMAIN stack' = 1 .. Len(stack) - 1
      /\ \A j \in DOMAIN stack' :
           /\ j \in DOMAIN stack
           /\ stack'[j] = IF j = Len(stack') THEN [stack[j] EXCEPT !.got = Append(@, w)]
                          ELSE stack[j]
      /\ Len(stack) = 1 => /\ phase' = IF phase = "build" THEN "iterate" ELSE "idle"
                           /\ built' = IF phase = "build" /\ w # None THEN built \cup {w}
                                       ELSE built
      /\ Len(stack) # 1 => UNCHANGED <<phase, built>>
  BY <1>1, <1>2, ReturnShape
<1>4. built' \subseteq IF w = None \/ phase # "build" THEN built ELSE built \cup {w}
  BY <1>3
<1>5. ASSUME phase' = "build", NEW j \in DOMAIN stack'
      PROVE  /\ phase = "build" /\ j \in DOMAIN stack
             /\ stack'[j].does = stack[j].does /\ stack'[j].ref = stack[j].ref
             /\ \/ stack'[j].got = stack[j].got
                \/ stack'[j].got = Append(stack[j].got, w)
  <2>1. phase = "build"
    BY <1>3, <1>5
  <2>2. j \in DOMAIN stack /\ stack[j] \in Frame
    BY <1>2, <1>3
  <2>3. stack'[j] = stack[j] \/ stack'[j] = [stack[j] EXCEPT !.got = Append(@, w)]
    BY <1>3
  <2> QED BY <2>1, <2>2, <2>3 DEF Frame
<1> QED BY <1>1, <1>4, <1>5, FullWhereNoNew

\* Elsewhere the frames have no answers yet, or what they had, or None.
LEMMA FullAfterOthers ==
  ASSUME CallInv, CallInv', [Next]_vars, NEW G, FullSet(G), ids' = ids, built' = built,
         phase' = "build" =>
           \A j \in DOMAIN stack' :
             \/ stack'[j].got = <<>> /\ stack'[j].does # "after"
             \/ /\ phase = "build" /\ j \in DOMAIN stack
                /\ stack'[j].does = stack[j].does /\ stack'[j].ref = stack[j].ref
                /\ \/ stack'[j].got = stack[j].got
                   \/ stack'[j].got = Append(stack[j].got, None)
  PROVE  \E L : FullSet(L)'
<1> PICK w : w = None
  OBVIOUS
<1>1. w \in Numbers \cup {None} /\ w = None
  OBVIOUS
<1>2. built' \subseteq IF w = None \/ phase # "build" THEN built ELSE built \cup {w}
  OBVIOUS
<1> QED BY <1>1, <1>2, FullWhereNoNew

LEMMA FullAfterCall ==
  ASSUME CallInv, CallInv', [Next]_vars, NEW G, FullSet(G), Call
  PROVE  \E L : FullSet(L)'
<1>1. TypeOK /\ StackOK /\ stack \in Seq(Frame) /\ Len(stack) \in Nat
  BY DEF CallInv, Inv, TypeOK
<1>2. /\ ids' = ids /\ built' = built /\ phase' = phase
  BY DEF Call
<1>3. ASSUME phase' = "build", NEW j \in DOMAIN stack'
      PROVE  \/ stack'[j].got = <<>> /\ stack'[j].does # "after"
             \/ /\ phase = "build" /\ j \in DOMAIN stack
                /\ stack'[j].does = stack[j].does /\ stack'[j].ref = stack[j].ref
                /\ \/ stack'[j].got = stack[j].got
                   \/ stack'[j].got = Append(stack[j].got, None)
  <2>1. CASE Calls(Top)[Len(Top.got) + 1] = None
    <3>1. /\ j \in DOMAIN stack /\ stack[j] \in Frame
          /\ stack'[j] = stack[j] \/ stack'[j] = [stack[j] EXCEPT !.got = Append(@, None)]
      BY <1>1, <1>3, <2>1, NoneShape
    <3> QED BY <1>2, <1>3, <3>1 DEF Frame
  <2>2. CASE Calls(Top)[Len(Top.got) + 1] # None
    <3>1. PICK x \in Item :
            /\ DOMAIN stack' = 1 .. Len(stack) + 1
            /\ \A i \in DOMAIN stack : stack'[i] = stack[i]
            /\ stack'[Len(stack) + 1] = Called(x)
      BY <1>1, <2>2, PushShape
    <3>2. CASE j = Len(stack) + 1
      BY <3>1, <3>2 DEF Called
    <3>3. CASE j # Len(stack) + 1
      <4>1. j \in DOMAIN stack
        BY <1>1, <1>3, <3>1, <3>3
      <4> QED BY <1>2, <1>3, <3>1, <4>1
    <3> QED BY <3>2, <3>3
  <2> QED BY <2>1, <2>2
<1> QED BY <1>2, <1>3, FullAfterOthers

\* The numbers in the string of a symbol are those of symbols and files.
LEMMA SymbolsHaveSymbols ==
  ASSUME CallInv, NEW G, FullSet(G), stack # <<>>, Top.does = "string",
         Top.item \in Symbol \cup File
  PROVE  Ran(Top.got) \subseteq G
<1>1. TypeOK /\ IssuedOK /\ StackOK
  BY DEF CallInv, Inv
<1>2. Top \in Frame /\ Top = stack[Len(stack)] /\ Len(stack) \in DOMAIN stack
  BY <1>1, TopOfStack
<1>3. FrameOK(Len(stack))
  BY <1>1, <1>2 DEF StackOK
<1>4. /\ Len(Top.got) <= Len(Calls(Top)) /\ Calls(Top) = Parts[Top.item]
      /\ \A i \in DOMAIN Top.got :
           Top.got[i] # None => <<Parts[Top.item][i], Top.got[i]>> \in issued
  BY <1>2, <1>3 DEF FrameOK, Calls
<1>5. Parts[Top.item] \in Seq(Symbol \cup File) /\ Top.got \in Seq(Ref \cup {None})
  <2>1. Parts[Top.item] \in Seq(IF Top.item \in Symbol THEN Symbol \cup File ELSE {})
    BY TypeTableAssumption
  <2>2. Parts[Top.item] \in Seq(Symbol \cup File)
    <3>1. CASE Top.item \in Symbol
      BY <2>1, <3>1
    <3>2. CASE Top.item \notin Symbol
      BY <2>1, <3>2
    <3> QED BY <3>1, <3>2
  <2> QED BY <1>2, <2>2 DEF Frame
<1>6. ASSUME NEW i \in DOMAIN Top.got, Top.got[i] # None PROVE Top.got[i] \in G
  <2>1. i \in DOMAIN Parts[Top.item]
    BY <1>4, <1>5
  <2> DEFINE y == Parts[Top.item][i]
             v == Top.got[i]
  <2>2. y \in Symbol \cup File /\ v \in Ref /\ <<y, v>> \in issued
    <3>1. v \in Ref \cup {None} /\ v # None
      BY <1>5, <1>6
    <3>2. <<y, v>> \in issued
      BY <1>4, <1>6
    <3>3. y \in Symbol \cup File
      <4> HIDE DEF v
      <4> QED BY <1>5, <2>1
    <3> QED BY <3>1, <3>2, <3>3
  <2>3. Describes(v, y)
    BY <1>1, <2>2 DEF IssuedOK, Item
  <2>4. v[1] = KindOf(y) /\ v[2] < Len(ids[v[1]])
    BY <2>3 DEF Describes
  <2>5. KindOf(y) \in {"symbol", "file"}
    BY <2>2, TypeTableAssumption DEF KindOf
  <2>6. v \in Numbers
    BY <1>1, <2>2, <2>4, NumberOf
  <2> QED BY <2>4, <2>5, <2>6 DEF FullSet
<1> QED BY <1>6 DEF Ran

\* A new number is full if it was asked for in full context: its type waits to be
\* extracted as such, and the numbers in its string were full.
LEMMA FullAfterRegister ==
  ASSUME CallInv, CallInv', [Next]_vars, NEW G, FullSet(G), Register
  PROVE  \E L : FullSet(L)'
<1>1. TypeOK /\ TypeOK' /\ StackOK /\ stack \in Seq(Frame) /\ Len(stack) \in Nat
  BY DEF CallInv, Inv, TypeOK
<1>2. /\ stack # <<>> /\ Top.does = "string" /\ UNCHANGED <<shallow, phase, built>>
  BY DEF Register, HasString, InString
<1>3. /\ Top \in Frame /\ Top = stack[Len(stack)] /\ Len(stack) \in DOMAIN stack /\ Top.item \in Item
  BY <1>1, <1>2, TopOfStack DEF Frame
<1> PICK k : k = KindOf(Top.item)
  OBVIOUS
<1>4. k \in Kind /\ (k = "type" <=> Top.item \in Type)
      /\ (k \in {"symbol", "file"} => Top.item \in Symbol \cup File)
  BY <1>3, KindOfItem DEF KindOf, Item
<1>5. PICK n \in Nat :
        /\ n = Len(ids[k])
        /\ DOMAIN stack' = DOMAIN stack
        /\ \A j \in DOMAIN stack : j # Len(stack) => stack'[j] = stack[j]
        /\ stack'[Len(stack)].ref = <<k, n>> /\ stack'[Len(stack)].got = <<>>
        /\ ids' = [ids EXCEPT ![k] = Append(@, String)]
        /\ Top.item \in Type => state' = Append(state, Pending)
  BY <1>1, RegisterShape
<1> PICK r : r = <<k, n>>
  OBVIOUS
<1> PICK K : K = IF k \in {"symbol", "file"} \/ phase = "build" THEN G \cup {r} ELSE G
  OBVIOUS
<1>6. /\ \A l \in Kind : ids[l] \in Seq(Content) /\ Len(ids[l]) \in Nat
      /\ \A l \in Kind : l # k => ids'[l] = ids[l]
      /\ ids'[k] = Append(ids[k], String)
  BY <1>1, <1>4, <1>5 DEF TypeOK
<1>7. /\ r \in Ref /\ r[1] = k /\ r[2] = n /\ Len(ids'[k]) = n + 1
      /\ StringOf(r)' = String
  BY <1>4, <1>5, <1>6 DEF Ref, StringOf
<1>8. ASSUME NEW v \in Numbers PROVE v \in Numbers' /\ StringOf(v)' = StringOf(v)
  <2>1. v \in Ref /\ v[1] \in Kind /\ v[2] \in Nat /\ v[2] < Len(ids[v[1]])
    BY <1>1, NumberOf DEF Ref
  <2>2. v[2] < Len(ids'[v[1]]) /\ ids'[v[1]][v[2] + 1] = ids[v[1]][v[2] + 1]
    BY <1>4, <1>5, <1>6, <2>1
  <2>3. v \in Numbers'
    BY <1>1, <2>1, <2>2, NumberThen
  <2> QED BY <2>2, <2>3 DEF StringOf
<1>9. ASSUME NEW v, v \in Numbers' PROVE v \in Numbers \/ v = r
  <2>1. v \in Ref /\ v[1] \in Kind /\ v[2] \in Nat /\ v[2] < Len(ids'[v[1]]) /\ v = <<v[1], v[2]>>
    BY <1>1, <1>9, NumberThen DEF Ref
  <2>2. v[2] < Len(ids[v[1]]) \/ v = r
    BY <1>4, <1>5, <1>6, <1>7, <2>1
  <2> QED BY <1>1, <2>1, <2>2, NumberOf
<1>10. r \in Numbers'
  BY <1>1, <1>5, <1>7, NumberThen
<1>11. G \subseteq Numbers
  BY DEF FullSet
<1>12. K \subseteq Numbers' /\ built' \subseteq K /\ G \subseteq K
  BY <1>2, <1>8, <1>10, <1>11 DEF FullSet
<1>13. ASSUME NEW v, v \in Numbers', v[1] \in {"symbol", "file"} PROVE v \in K
  BY <1>7, <1>9, <1>12, <1>13 DEF FullSet
<1>14. ASSUME k \in {"symbol", "file"} \/ phase = "build" PROVE Ran(Top.got) \subseteq G
  <2>1. phase = "build" => Ran(Top.got) \subseteq G
    BY <1>3 DEF FullSet
  <2>2. k \in {"symbol", "file"} => Ran(Top.got) \subseteq G
    BY <1>2, <1>4, SymbolsHaveSymbols
  <2> QED BY <1>14, <2>1, <2>2
<1>15. ASSUME NEW v \in K PROVE Ran(StringOf(v)'.parts) \subseteq K
  <2>1. CASE v \in G
    <3>1. StringOf(v)' = StringOf(v) /\ Ran(StringOf(v).parts) \subseteq G
      BY <1>8, <1>11, <2>1 DEF FullSet
    <3> QED BY <1>12, <3>1
  <2>2. CASE v \notin G
    <3>1. v = r /\ (k \in {"symbol", "file"} \/ phase = "build")
      BY <2>2
    <3>2. StringOf(v)'.parts = Top.got
      BY <1>7, <3>1 DEF String
    <3> QED BY <1>12, <1>14, <3>1, <3>2
  <2> QED BY <2>1, <2>2
<1>16. ASSUME NEW v \in K, v[1] = "type" PROVE IsFull(v[2])'
  <2>1. CASE v \in G
    <3>1. IsFull(v[2]) /\ v \in Numbers
      BY <1>11, <1>16, <2>1 DEF FullSet
    <3>2. v[2] \in Nat /\ v[2] < Len(ids["type"])
      BY <1>1, <1>16, <3>1, NumberOf DEF Ref
    <3>3. v[2] + 1 \in DOMAIN state
      BY <1>1, <3>2 DEF TypeOK
    <3>4. ASSUME NEW m \in Nat, m + 1 \in DOMAIN state, IsFull(m) PROVE IsFull(m)'
      BY <3>4, FullStays
    <3> QED BY <3>1, <3>2, <3>3, <3>4
  <2>2. CASE v \notin G
    <3>1. v = r /\ k = "type" /\ phase = "build"
      BY <1>7, <1>16, <2>2
    <3>2. ~shallow
      BY <3>1 DEF CallInv, ContextOK
    <3>3. state' = Append(state, "PendingFull")
      BY <1>4, <1>5, <3>1, <3>2 DEF Pending
    <3>4. state \in Seq(TypeExtractionState) /\ Len(state) = n
      BY <1>1, <1>5, <3>1 DEF TypeOK
    <3>5. state'[n + 1] = "PendingFull" /\ phase' = "build"
      BY <1>2, <3>1, <3>3, <3>4
    <3> QED BY <1>7, <3>1, <3>5 DEF IsFull
  <2> QED BY <2>1, <2>2
<1>17. ASSUME phase' = "build", NEW j \in DOMAIN stack'
       PROVE  /\ Ran(stack'[j].got) \subseteq K
              /\ stack'[j].does = "after" => stack'[j].ref \in K
  <2>1. CASE j = Len(stack)
    BY <1>2, <1>5, <1>17, <2>1 DEF Ran
  <2>2. CASE j # Len(stack)
    BY <1>2, <1>5, <1>12, <1>17, <2>2 DEF FullSet
  <2> QED BY <2>1, <2>2
<1>18. FullSet(K)'
  BY <1>12, <1>13, <1>15, <1>16, <1>17 DEF FullSet
<1> QED BY <1>18

LEMMA FullKeeps ==
  ASSUME CallInv, CallInv', [Next]_vars, NEW G, FullSet(G)
  PROVE  \E L : FullSet(L)'
<1>1. CASE ReturnNull \/ ReturnCached \/ Find \/ Discard \/ ReturnId
  BY <1>1, FullAfterReturn
<1>2. CASE Call
  BY <1>2, FullAfterCall
<1>3. CASE Register
  BY <1>3, FullAfterRegister
<1>4. CASE LeaveShallow \/ Extract \/ Extracted \/ Iterated
  <2>1. phase = "iterate"
    <3>1. CASE LeaveShallow \/ Extract \/ Iterated
      BY <3>1 DEF LeaveShallow, Extract, Iterated, Iterating
    <3>2. CASE Extracted
      <4>1. stack # <<>> /\ Top.does = "members" /\ TypeOK /\ StackOK /\ PhaseOK
        BY <3>2 DEF Extracted, CallInv, Inv
      <4>2. Len(stack) = 1
        <5>1. Len(stack) \in Nat /\ Len(stack) >= 1 /\ Top = stack[Len(stack)]
          BY <4>1, TopOfStack
        <5>2. ASSUME Len(stack) # 1 PROVE FALSE
          <6>1. Len(stack) - 1 \in DOMAIN stack /\ Len(stack) - 1 < Len(stack)
                /\ (Len(stack) - 1) + 1 = Len(stack)
            <7>1. stack \in Seq(Frame)
              BY <4>1 DEF TypeOK
            <7> QED BY <5>1, <5>2, <7>1
          <6>2. FrameOK(Len(stack) - 1)
            BY <4>1, <6>1 DEF StackOK
          <6> QED BY <4>1, <5>1, <6>1, <6>2 DEF FrameOK
        <5> QED BY <5>2
      <4>3. stack[1].does = "members"
        BY <4>1, <4>2 DEF Top
      <4>4. phase \in {"idle", "ask", "build", "iterate"}
        BY <4>1 DEF TypeOK
      <4> QED BY <4>1, <4>3, <4>4 DEF PhaseOK
    <3> QED BY <1>4, <3>1, <3>2
  <2>2. phase' # "build" /\ ids' = ids /\ built' = built
    BY <1>4, <2>1 DEF LeaveShallow, Extract, Extracted, Iterated
  <2> QED BY <2>2, FullAfterOthers
<1>5. ASSUME NEW t \in AstType, buildType(t) PROVE \E L : FullSet(L)'
  <2>1. /\ stack' = <<Called(t)>> /\ ids' = ids /\ built' = built
    BY <1>5 DEF buildType
  <2>2. \A j \in DOMAIN stack' : stack'[j].got = <<>> /\ stack'[j].does # "after"
    BY <2>1 DEF Called
  <2> QED BY <2>1, <2>2, FullAfterOthers
<1>6. ASSUME NEW x, getOtherId(x) PROVE \E L : FullSet(L)'
  <2>1. phase' # "build" /\ ids' = ids /\ built' = built
    BY <1>6 DEF getOtherId
  <2> QED BY <2>1, FullAfterOthers
<1>7. CASE setProgram
  <2>1. phase' # "build" /\ ids' = ids /\ built' = built
    BY <1>7 DEF setProgram
  <2> QED BY <2>1, FullAfterOthers
<1>8. CASE UNCHANGED vars
  <2>1. UNCHANGED <<ids, built, phase, stack>>
    BY <1>8 DEF vars
  <2> QED BY <2>1, FullAfterOthers
<1> QED BY <1>1, <1>2, <1>3, <1>4, <1>5, <1>6, <1>7, <1>8, StepKinds

\* What can be reached from the numbers that were returned is in any such set.
LEMMA FullWhenIdle ==
  ASSUME TypeOK, NEW G, FullSet(G)
  PROVE  BuiltIsFull
<1>1. /\ G \subseteq Numbers /\ built \subseteq G
      /\ \A v \in G : Ran(StringOf(v).parts) \subseteq G
      /\ \A v \in G : v[1] = "type" => IsFull(v[2])
  BY DEF FullSet
<1>2. DOMAIN PartsOfNumber = Numbers /\ \A v \in Numbers : PartsOfNumber[v] = Ran(StringOf(v).parts)
  BY DEF PartsOfNumber
<1>3. IsFiniteSet(DOMAIN PartsOfNumber)
  BY <1>2, NumbersAreFinite
<1>4. \A v \in G : PartsOfNumber[v] \subseteq G
  BY <1>1, <1>2
<1>5. Closure(built, PartsOfNumber) \subseteq G
  BY <1>1, <1>2, <1>3, <1>4, ClosureInside
<1> QED BY <1>1, <1>5 DEF BuiltIsFull, IsFull

\* Full context reaches every type in the string of the type of a syntax node, whatever is
\* asked for in which order, at any depth and in any number of programs.
THEOREM BuiltTypesAreFull == Spec => []BuiltIsFull
<1> DEFINE FullInv == \E G : FullSet(G)
<1>1. Init => FullInv
  <2> SUFFICES ASSUME Init PROVE FullSet({})
    OBVIOUS
  <2>1. Numbers = {}
    <3>1. \A k \in Kind : Len(ids[k]) = 0
      BY DEF Init
    <3>2. \A k \in Kind : {k} \X (0 .. Len(ids[k]) - 1) = {}
      BY <3>1
    <3> QED BY <3>2 DEF Numbers
  <2> QED BY <2>1 DEF Init, FullSet
<1>2. CallInv /\ CallInv' /\ FullInv /\ [Next]_vars => FullInv'
  BY FullKeeps
<1>3. CallInv /\ FullInv => BuiltIsFull
  BY FullWhenIdle DEF CallInv, Inv
<1> HIDE DEF FullInv
<1> QED BY <1>1, <1>2, <1>3, CallsInvariant, PTL DEF Spec

-----------------------------------------------------------------------------
(* What has no number.                                                     *)

LEMMA FailingGrows ==
  ASSUME NEW S, NEW R, S \subseteq R
  PROVE  Failing(S) \subseteq Failing(R)
BY DEF Failing

\* A smallest set with the rules has nothing but what they say.
LEMMA NullsAre ==
  /\ Nulls \subseteq Item \X Nat
  /\ Failing(Nulls) = Nulls
  /\ \A S \in SUBSET (Item \X Nat) : Failing(S) \subseteq S => Nulls \subseteq S
<1>1. /\ Nulls \subseteq Item \X Nat
      /\ \A S \in SUBSET (Item \X Nat) : Failing(S) \subseteq S => Nulls \subseteq S
  BY DEF Nulls
<1>2. Failing(Nulls) \subseteq Nulls
  <2> SUFFICES ASSUME NEW p \in Failing(Nulls), NEW S \in SUBSET (Item \X Nat), Failing(S) \subseteq S
               PROVE  p \in S
    BY DEF Nulls, Failing
  <2>1. Nulls \subseteq S
    BY <1>1
  <2>2. Failing(Nulls) \subseteq Failing(S)
    BY <2>1, FailingGrows
  <2> QED BY <2>2
<1>3. Nulls \subseteq Failing(Nulls)
  <2>1. Failing(Nulls) \in SUBSET (Item \X Nat)
    BY DEF Failing
  <2>2. Failing(Failing(Nulls)) \subseteq Failing(Nulls)
    BY <1>2, FailingGrows
  <2> QED BY <1>1, <2>1, <2>2
<1> QED BY <1>1, <1>2, <1>3

LEMMA NullWhen ==
  ASSUME NEW x \in Item, NEW d \in Nat
  PROVE  <<x, d>> \in Nulls <=>
           \/ x \in Type /\ d > MaxDepth
           \/ Tag[x] = None
           \/ x \in Unprintable
           \/ \E i \in DOMAIN Parts[x] : <<x, i>> \notin Optional /\ Fails(Parts[x][i], Inside(x, d))
<1> DEFINE p == <<x, d>>
<1>1. p \in Item \X Nat /\ p[1] = x /\ p[2] = d
  OBVIOUS
<1>2. p \in Nulls <=> p \in Failing(Nulls)
  BY NullsAre
<1> HIDE DEF p
<1>3. p \in Failing(Nulls) <=>
           \/ x \in Type /\ d > MaxDepth
           \/ Tag[x] = None
           \/ x \in Unprintable
           \/ \E i \in DOMAIN Parts[x] : <<x, i>> \notin Optional /\ Fails(Parts[x][i], Inside(x, d))
  BY <1>1 DEF Failing, Fails
<1> QED BY <1>2, <1>3 DEF p

\* Symbols and files always have a number.
LEMMA SymbolsHaveNumbers ==
  ASSUME NEW y \in Symbol \cup File, NEW d
  PROVE  ~Fails(y, d)
<1> DEFINE S == {p \in Item \X Nat : p[1] \notin Symbol \cup File}
<1>1. ASSUME NEW p \in Failing(S) PROVE p \in S
  <2>1. p \in Item \X Nat /\ p[1] \in Item
    BY DEF Failing
  <2>2. ASSUME p[1] \in Symbol \cup File PROVE FALSE
    <3>1. /\ p[1] \notin Type /\ Tag[p[1]] # None /\ p[1] \notin Unprintable
          /\ Parts[p[1]] \in Seq(IF p[1] \in Symbol THEN Symbol \cup File ELSE {})
      BY <2>2, TypeTableAssumption
    <3>2. Parts[p[1]] \in Seq(Symbol \cup File)
      <4>1. CASE p[1] \in Symbol
        BY <3>1, <4>1
      <4>2. CASE p[1] \notin Symbol
        BY <3>1, <4>2
      <4> QED BY <4>1, <4>2
    <3>3. PICK i \in DOMAIN Parts[p[1]] :
            Parts[p[1]][i] = None \/ <<Parts[p[1]][i], Inside(p[1], p[2])>> \in S
      BY <3>1 DEF Failing
    <3>4. Parts[p[1]][i] \in Symbol \cup File
      BY <3>2
    <3>5. Parts[p[1]][i] # None
      BY <3>4, TypeTableAssumption DEF Item
    <3> QED BY <3>3, <3>4, <3>5
  <2> QED BY <2>1, <2>2
<1>2. Nulls \subseteq S
  BY <1>1, NullsAre
<1>3. y # None
  BY TypeTableAssumption DEF Item
<1> QED BY <1>2, <1>3 DEF Fails

\* What fails at some depth fails where it is deeper.
LEMMA DeeperFails ==
  ASSUME NEW x, NEW d \in Nat, NEW e \in Nat, d <= e, Fails(x, d)
  PROVE  Fails(x, e)
<1> DEFINE S == {p \in Item \X Nat : \A c \in Nat : p[2] <= c => <<p[1], c>> \in Nulls}
<1>1. ASSUME NEW p \in Failing(S) PROVE p \in S
  <2>1. p \in Item \X Nat /\ p[1] \in Item /\ p[2] \in Nat
    BY DEF Failing
  <2> SUFFICES ASSUME NEW c \in Nat, p[2] <= c PROVE <<p[1], c>> \in Nulls
    BY <2>1
  <2>2. CASE p[1] \in Type /\ p[2] > MaxDepth
    <3>1. c > MaxDepth
      BY <2>1, <2>2, TypeTableAssumption
    <3> QED BY <2>1, <2>2, <3>1, NullWhen
  <2>3. CASE Tag[p[1]] = None \/ p[1] \in Unprintable
    BY <2>1, <2>3, NullWhen
  <2>4. ASSUME NEW i \in DOMAIN Parts[p[1]], <<p[1], i>> \notin Optional,
               Parts[p[1]][i] = None \/ <<Parts[p[1]][i], Inside(p[1], p[2])>> \in S
        PROVE  <<p[1], c>> \in Nulls
    <3>1. Fails(Parts[p[1]][i], Inside(p[1], c))
      <4>1. CASE Parts[p[1]][i] = None
        BY <4>1 DEF Fails
      <4>2. CASE <<Parts[p[1]][i], Inside(p[1], p[2])>> \in S
        <5>1. Inside(p[1], p[2]) <= Inside(p[1], c) /\ Inside(p[1], c) \in Nat
          BY <2>1 DEF Inside
        <5> QED BY <4>2, <5>1 DEF Fails
      <4> QED BY <2>4, <4>1, <4>2
    <3> QED BY <2>1, <2>4, <3>1, NullWhen
  <2> QED BY <2>2, <2>3, <2>4 DEF Failing
<1>2. Nulls \subseteq S
  BY <1>1, NullsAre
<1> QED BY <1>2 DEF Fails

LEMMA DepthNext ==
  ASSUME NEW s, NEW j \in Nat, j >= 1
  PROVE  /\ DepthIn(s, j) \in Nat
         /\ DepthIn(s, 1) = 0
         /\ DepthIn(s, j + 1) = IF s[j].does = "string" THEN Inside(s[j].item, DepthIn(s, j))
                                ELSE DepthIn(s, j)
<1> DEFINE D(n) == {i \in 1 .. n - 1 : s[i].does = "string" /\ s[i].item \in Type}
<1>1. \A n : DepthIn(s, n) = Cardinality(D(n))
  BY DEF DepthIn
<1>2. ASSUME NEW n \in Nat, n >= 1 PROVE IsFiniteSet(D(n))
  <2>1. IsFiniteSet(1 .. n - 1)
    BY <1>2, FS_Interval
  <2> QED BY <2>1, FS_Subset
<1>3. Cardinality(D(j)) \in Nat
  BY <1>2, FS_CardinalityType
<1>4. D(1) = {}
  OBVIOUS
<1>5. Cardinality(D(1)) = 0
  BY <1>4, FS_EmptySet
<1>6. j \notin D(j)
  OBVIOUS
<1>7. D(j + 1) = IF s[j].does = "string" /\ s[j].item \in Type THEN D(j) \cup {j} ELSE D(j)
  <2>1. 1 .. (j + 1) - 1 = (1 .. j - 1) \cup {j}
    OBVIOUS
  <2> QED BY <2>1
<1>8. Cardinality(D(j) \cup {j}) = Cardinality(D(j)) + 1
  <2> HIDE DEF D
  <2>1. IsFiniteSet(D(j))
    BY <1>2
  <2> QED BY <1>6, <2>1, FS_AddElement
<1> HIDE DEF D
<1> QED BY <1>1, <1>3, <1>5, <1>7, <1>8 DEF Inside

\* The depth is that of the frames below.
LEMMA DepthSame ==
  ASSUME NEW s, NEW t, NEW j \in Nat,
         \A i \in 1 .. j - 1 : t[i].does = s[i].does /\ t[i].item = s[i].item
  PROVE  DepthIn(t, j) = DepthIn(s, j)
<1>1. {i \in 1 .. j - 1 : t[i].does = "string" /\ t[i].item \in Type}
        = {i \in 1 .. j - 1 : s[i].does = "string" /\ s[i].item \in Type}
  OBVIOUS
<1> QED BY <1>1 DEF DepthIn

LEMMA DepthOfTop ==
  ASSUME TypeOK, stack # <<>>
  PROVE  Depth = DepthIn(stack, Len(stack)) /\ Depth \in Nat
<1>1. Len(stack) \in Nat /\ Len(stack) >= 1
  BY TopOfStack
<1> QED BY <1>1, DepthNext DEF Depth, DepthIn

\* The call on top with a whole string: it does not fail.
LEMMA StringDoesNotFail ==
  ASSUME CallInv, AnswersOK, HasString, Top.item \notin Unprintable
  PROVE  ~Fails(Top.item, DepthIn(stack, Len(stack)))
<1>1. TypeOK /\ StackOK /\ stack # <<>> /\ Top.does = "string" /\ ~IsNull
      /\ Len(Top.got) = Len(Parts[Top.item])
  BY DEF CallInv, Inv, HasString, InString
<1>2. /\ Top \in Frame /\ Top = stack[Len(stack)] /\ Len(stack) \in DOMAIN stack
      /\ Top.item \in Item /\ Top.got \in Seq(Ref \cup {None})
      /\ Len(stack) \in Nat /\ Len(stack) >= 1
  BY <1>1, TopOfStack DEF Frame
<1> DEFINE d == DepthIn(stack, Len(stack))
<1>3. Depth = d /\ d \in Nat
  BY <1>1, DepthOfTop
<1>4. DepthIn(stack, Len(stack) + 1) = Inside(Top.item, d)
  BY <1>1, <1>2, DepthNext
<1> HIDE DEF d
<1>5. \A i \in DOMAIN Top.got : Top.got[i] = None <=> Fails(Parts[Top.item][i], Inside(Top.item, d))
  BY <1>1, <1>2, <1>4 DEF AnswersOK, FrameAnswers, Calls
<1>6. DOMAIN Parts[Top.item] = DOMAIN Top.got
  <2>1. Parts[Top.item] \in Seq(Item \cup {None})
    BY <1>2, TypeTableAssumption
  <2> QED BY <1>1, <1>2, <2>1
<1>7. /\ ~(Top.item \in Type /\ d > MaxDepth) /\ Tag[Top.item] # None
      /\ \A i \in DOMAIN Top.got : <<Top.item, i>> \notin Optional => Top.got[i] # None
  BY <1>1, <1>3 DEF IsNull
<1>8. <<Top.item, d>> \notin Nulls
  BY <1>2, <1>3, <1>5, <1>6, <1>7, NullWhen
<1>9. Top.item # None
  BY <1>2, TypeTableAssumption
<1> QED BY <1>8, <1>9 DEF Fails, d

\* The answer to the call on top is null just if it fails.
LEMMA AnswerIsRight ==
  ASSUME CallInv, AnswersOK, UnprintableHasNoNumber',
         ReturnNull \/ ReturnCached \/ Find \/ Discard \/ ReturnId
  PROVE  \E v \in Ref \cup {None} :
           /\ stack # <<>> /\ Top.does # "members" /\ Return(v)
           /\ v = None <=> Fails(Top.item, DepthIn(stack, Len(stack)))
<1>1. TypeOK /\ StackOK
  BY DEF CallInv, Inv
<1>2. stack # <<>>
  BY DEF ReturnNull, ReturnCached, Find, Discard, ReturnId, HasString, InString
<1>3. /\ Top \in Frame /\ Top = stack[Len(stack)] /\ Len(stack) \in DOMAIN stack
      /\ Top.item \in Item /\ Top.got \in Seq(Ref \cup {None})
      /\ Len(stack) \in Nat /\ Len(stack) >= 1
  BY <1>1, <1>2, TopOfStack DEF Frame
<1> DEFINE d == DepthIn(stack, Len(stack))
<1>4. Depth = d /\ d \in Nat
  BY <1>1, <1>2, DepthOfTop
<1>5. CASE ReturnNull
  <2>1. Top.does = "string" /\ IsNull /\ Return(None)
    BY <1>5 DEF ReturnNull, InString
  <2>2. \A i \in DOMAIN Top.got : Top.got[i] = None <=> Fails(Parts[Top.item][i], Inside(Top.item, d))
    <3>1. DepthIn(stack, Len(stack) + 1) = Inside(Top.item, d)
      BY <1>3, <2>1, DepthNext
    <3> HIDE DEF d
    <3> QED BY <1>3, <2>1, <3>1 DEF AnswersOK, FrameAnswers, Calls
  <2>3. DOMAIN Top.got \subseteq DOMAIN Parts[Top.item]
    <3>1. Len(Top.got) <= Len(Calls(Top))
      BY <1>1, <1>3 DEF StackOK, FrameOK
    <3>2. Len(Top.got) <= Len(Parts[Top.item]) /\ Parts[Top.item] \in Seq(Item \cup {None})
      BY <1>3, <2>1, <3>1, TypeTableAssumption DEF Calls
    <3> QED BY <1>3, <3>2
  <2> HIDE DEF d
  <2>4. <<Top.item, d>> \in Nulls
    BY <1>3, <1>4, <2>1, <2>2, <2>3, NullWhen DEF IsNull
  <2> QED BY <1>2, <2>1, <2>4 DEF d, Fails
<1>6. CASE ReturnCached
  <2>1. Top.does = "string" /\ Top.item \in Symbol /\ cached[Top.item] # None /\ Return(cached[Top.item])
    BY <1>6 DEF ReturnCached, InString, HasId
  <2>2. cached[Top.item] \in Ref
    BY <1>1, <2>1 DEF TypeOK
  <2> QED BY <1>2, <2>1, <2>2, SymbolsHaveNumbers
<1>7. CASE Discard
  <2>1. Top.does = "string" /\ Top.item \in Unprintable /\ Return(None)
    BY <1>7 DEF Discard, HasString, InString
  <2> HIDE DEF d
  <2>2. <<Top.item, d>> \in Nulls
    BY <1>3, <1>4, <2>1, NullWhen
  <2> QED BY <1>2, <2>1, <2>2 DEF d, Fails
<1>8. CASE ReturnId
  <2>1. Top.does = "after" /\ Return(Top.ref)
    BY <1>8 DEF ReturnId
  <2>2. Describes(Top.ref, Top.item) /\ ~Fails(Top.item, d)
    BY <1>1, <1>3, <2>1 DEF StackOK, FrameOK, AnswersOK, FrameAnswers
  <2>3. Top.ref \in Ref /\ Top.ref # None
    BY <2>2, TypeTableAssumption DEF Describes
  <2> QED BY <1>2, <2>1, <2>2, <2>3
<1>9. CASE Find
  <2>1. HasString /\ Top.does = "string"
    BY <1>9 DEF Find, HasString, InString
  <2>2. PICK n \in Found : Return(<<KindOf(Top.item), n>>)
    BY <1>9 DEF Find
  <2>3. n \in Nat /\ KindOf(Top.item) \in Kind
    <3>1. KindOf(Top.item) \in Kind
      BY <1>3, KindOfItem
    <3>2. ids[KindOf(Top.item)] \in Seq(Content)
      BY <1>1, <3>1 DEF TypeOK
    <3> QED BY <3>1, <3>2 DEF Found
  <2> DEFINE v == <<KindOf(Top.item), n>>
  <2>4. v \in Ref
    BY <2>3 DEF Ref
  <2>5. v # None
    BY <2>4, TypeTableAssumption
  <2>6. Return(v)
    BY <2>2
  <2> HIDE DEF v
  <2>7. Top.item \notin Unprintable
    <3>1. <<Top.item, v>> \in issued'
      BY <2>5, <2>6 DEF Return
    <3>2. \A p \in issued' : p[1] \notin Unprintable
      BY DEF UnprintableHasNoNumber
    <3> QED BY <3>1, <3>2
  <2> QED BY <1>2, <2>1, <2>4, <2>5, <2>6, <2>7, StringDoesNotFail
<1> QED BY <1>5, <1>6, <1>7, <1>8, <1>9

LEMMA AnswersStay ==
  ASSUME NEW s, NEW t, NEW j \in Nat, j >= 1, FrameAnswers(s, j),
         \A i \in 1 .. j : t[i].does = s[i].does /\ t[i].item = s[i].item,
         t[j].got = s[j].got
  PROVE  FrameAnswers(t, j)
<1>1. DepthIn(t, j) = DepthIn(s, j) /\ DepthIn(t, j + 1) = DepthIn(s, j + 1)
  BY DepthSame
<1>2. t[j].does = s[j].does /\ t[j].item = s[j].item
  OBVIOUS
<1> QED BY <1>1, <1>2 DEF FrameAnswers, Calls

LEMMA AnswersGrow ==
  ASSUME NEW s, NEW t, NEW j \in Nat, j >= 1, FrameAnswers(s, j),
         \A i \in 1 .. j : t[i].does = s[i].does /\ t[i].item = s[i].item,
         s[j].got \in Seq(Ref \cup {None}), NEW v \in Ref \cup {None},
         t[j].got = Append(s[j].got, v),
         v = None <=> Fails(Calls(s[j])[Len(s[j].got) + 1], DepthIn(s, j + 1))
  PROVE  FrameAnswers(t, j)
<1>1. DepthIn(t, j) = DepthIn(s, j) /\ DepthIn(t, j + 1) = DepthIn(s, j + 1)
  BY DepthSame
<1>2. t[j].does = s[j].does /\ t[j].item = s[j].item /\ Calls(t[j]) = Calls(s[j])
  BY DEF Calls
<1>3. ASSUME NEW i \in DOMAIN t[j].got
      PROVE  t[j].got[i] = None <=> Fails(Calls(t[j])[i], DepthIn(t, j + 1))
  <2>1. CASE i = Len(s[j].got) + 1
    <3>1. t[j].got[i] = v
      BY <2>1
    <3> QED BY <1>1, <1>2, <2>1, <3>1
  <2>2. CASE i # Len(s[j].got) + 1
    <3>1. i \in DOMAIN s[j].got /\ t[j].got[i] = s[j].got[i]
      BY <1>3, <2>2
    <3> QED BY <1>1, <1>2, <3>1 DEF FrameAnswers
  <2> QED BY <2>1, <2>2
<1> QED BY <1>1, <1>2, <1>3 DEF FrameAnswers

LEMMA AnswersAfterReturn ==
  ASSUME CallInv, AnswersOK, UnprintableHasNoNumber',
         ReturnNull \/ ReturnCached \/ Find \/ Discard \/ ReturnId
  PROVE  AnswersOK'
<1>1. PICK v \in Ref \cup {None} :
        /\ stack # <<>> /\ Top.does # "members" /\ Return(v)
        /\ v = None <=> Fails(Top.item, DepthIn(stack, Len(stack)))
  BY AnswerIsRight
<1>2. TypeOK /\ StackOK /\ stack \in Seq(Frame)
  BY DEF CallInv, Inv, TypeOK
<1>3. /\ Top = stack[Len(stack)] /\ Len(stack) \in Nat /\ Len(stack) >= 1
  BY <1>1, <1>2, TopOfStack
<1>4. /\ issued' = IF v = None THEN issued ELSE issued \cup {<<Top.item, v>>}
      /\ Len(stack') = Len(stack) - 1 /\ DOMAIN stack' = 1 .. Len(stack) - 1
      /\ \A j \in DOMAIN stack' :
           stack'[j] = IF j = Len(stack) - 1 THEN [stack[j] EXCEPT !.got = Append(@, v)]
                       ELSE stack[j]
  BY <1>1, <1>2, ReturnShape
<1>5. ASSUME NEW i \in DOMAIN stack'
      PROVE  /\ i \in DOMAIN stack /\ stack'[i].does = stack[i].does /\ stack'[i].item = stack[i].item
             /\ stack[i].got \in Seq(Ref \cup {None})
             /\ stack'[i].got = IF i = Len(stack) - 1 THEN Append(stack[i].got, v) ELSE stack[i].got
  <2>1. i \in DOMAIN stack /\ stack[i] \in Frame
    BY <1>2, <1>3, <1>4
  <2> QED BY <1>4, <2>1 DEF Frame
<1>6. ASSUME NEW j \in DOMAIN stack' PROVE FrameAnswers(stack', j)
  <2>1. j \in Nat /\ j >= 1 /\ j \in DOMAIN stack /\ j <= Len(stack) - 1 /\ 1 .. j \subseteq DOMAIN stack'
    BY <1>3, <1>4, <1>5
  <2>2. FrameAnswers(stack, j)
    BY <2>1 DEF AnswersOK
  <2>3. \A i \in 1 .. j : stack'[i].does = stack[i].does /\ stack'[i].item = stack[i].item
    BY <1>5, <2>1
  <2>4. CASE j = Len(stack) - 1
    <3>1. FrameOK(j) /\ j < Len(stack) /\ j + 1 = Len(stack)
      BY <1>2, <1>3, <2>1, <2>4 DEF StackOK
    <3>2. Top.item = Calls(stack[j])[Len(stack[j].got) + 1]
      BY <1>3, <3>1 DEF FrameOK
    <3>3. v = None <=> Fails(Calls(stack[j])[Len(stack[j].got) + 1], DepthIn(stack, j + 1))
      BY <1>1, <3>1, <3>2
    <3>4. stack[j].got \in Seq(Ref \cup {None}) /\ stack'[j].got = Append(stack[j].got, v)
      BY <1>5, <2>4
    <3> QED BY <2>1, <2>2, <2>3, <3>3, <3>4, AnswersGrow
  <2>5. CASE j # Len(stack) - 1
    <3>1. stack'[j].got = stack[j].got
      BY <1>5, <2>5
    <3> QED BY <2>1, <2>2, <2>3, <3>1, AnswersStay
  <2> QED BY <2>4, <2>5
<1>7. ASSUME NEW p \in issued' PROVE ~Fails(p[1], 0)
  <2>1. CASE p \in issued
    BY <2>1 DEF AnswersOK
  <2>2. CASE p \notin issued
    <3>1. p = <<Top.item, v>> /\ v # None /\ p[1] = Top.item
      BY <1>4, <1>7, <2>2
    <3>2. DepthIn(stack, Len(stack)) \in Nat
      BY <1>3, DepthNext
    <3> QED BY <1>1, <3>1, <3>2, DeeperFails
  <2> QED BY <2>1, <2>2
<1> QED BY <1>6, <1>7 DEF AnswersOK

\* A new frame has no answers.
LEMMA NoAnswers ==
  ASSUME NEW s, NEW j, s[j].got = <<>>, s[j].does # "after"
  PROVE  FrameAnswers(s, j)
BY DEF FrameAnswers

LEMMA AnswersAfterCall ==
  ASSUME CallInv, AnswersOK, Call
  PROVE  AnswersOK'
<1>1. TypeOK /\ StackOK /\ stack \in Seq(Frame) /\ Len(stack) \in Nat /\ issued' = issued
      /\ stack # <<>>
  BY DEF CallInv, Inv, TypeOK, Call
<1>2. Top = stack[Len(stack)] /\ Len(stack) >= 1
  BY <1>1, TopOfStack
<1>3. ASSUME NEW j \in DOMAIN stack'
      PROVE  FrameAnswers(stack', j)
  <2>1. CASE Calls(Top)[Len(Top.got) + 1] = None
    <3>1. /\ DOMAIN stack' = DOMAIN stack
          /\ \A i \in DOMAIN stack :
               stack'[i] = IF i = Len(stack) THEN [stack[i] EXCEPT !.got = Append(@, None)]
                           ELSE stack[i]
      BY <1>1, <2>1, NoneShape
    <3>2. j \in Nat /\ j >= 1 /\ j \in DOMAIN stack /\ 1 .. j \subseteq DOMAIN stack
      BY <1>1, <1>3, <3>1
    <3>3. ASSUME NEW i \in DOMAIN stack
          PROVE  /\ stack'[i].does = stack[i].does /\ stack'[i].item = stack[i].item
                 /\ stack[i].got \in Seq(Ref \cup {None})
                 /\ stack'[i].got = IF i = Len(stack) THEN Append(stack[i].got, None) ELSE stack[i].got
      <4>1. stack[i] \in Frame
        BY <1>1
      <4> QED BY <3>1, <4>1 DEF Frame
    <3>4. FrameAnswers(stack, j)
      BY <3>2 DEF AnswersOK
    <3>5. \A i \in 1 .. j : stack'[i].does = stack[i].does /\ stack'[i].item = stack[i].item
      BY <3>2, <3>3
    <3>6. CASE j = Len(stack)
      <4> PICK v \in Ref \cup {None} : v = None
        OBVIOUS
      <4>1. v = None <=> Fails(Calls(stack[j])[Len(stack[j].got) + 1], DepthIn(stack, j + 1))
        BY <1>2, <2>1, <3>6 DEF Fails
      <4>2. stack'[j].got = Append(stack[j].got, v) /\ stack[j].got \in Seq(Ref \cup {None})
        BY <3>2, <3>3, <3>6
      <4> QED BY <3>2, <3>4, <3>5, <4>1, <4>2, AnswersGrow
    <3>7. CASE j # Len(stack)
      <4>1. stack'[j].got = stack[j].got
        BY <3>2, <3>3, <3>7
      <4> QED BY <3>2, <3>4, <3>5, <4>1, AnswersStay
    <3> QED BY <3>6, <3>7
  <2>2. CASE Calls(Top)[Len(Top.got) + 1] # None
    <3>1. PICK x \in Item :
            /\ DOMAIN stack' = 1 .. Len(stack) + 1
            /\ \A i \in DOMAIN stack : stack'[i] = stack[i]
            /\ stack'[Len(stack) + 1] = Called(x)
      BY <1>1, <2>2, PushShape
    <3>2. CASE j = Len(stack) + 1
      <4>1. stack'[j].got = <<>> /\ stack'[j].does # "after"
        BY <3>1, <3>2 DEF Called
      <4> QED BY <4>1, NoAnswers
    <3>3. CASE j # Len(stack) + 1
      <4>1. j \in Nat /\ j >= 1 /\ j \in DOMAIN stack /\ 1 .. j \subseteq DOMAIN stack
        BY <1>1, <1>3, <3>1, <3>3
      <4>2. /\ \A i \in 1 .. j : stack'[i].does = stack[i].does /\ stack'[i].item = stack[i].item
            /\ stack'[j].got = stack[j].got
        BY <3>1, <4>1
      <4>3. FrameAnswers(stack, j)
        BY <4>1 DEF AnswersOK
      <4> QED BY <4>1, <4>2, <4>3, AnswersStay
    <3> QED BY <3>2, <3>3
  <2> QED BY <2>1, <2>2
<1> QED BY <1>1, <1>3 DEF AnswersOK

LEMMA AnswersAfterRegister ==
  ASSUME CallInv, AnswersOK, Register
  PROVE  AnswersOK'
<1>1. TypeOK /\ StackOK /\ stack \in Seq(Frame) /\ Len(stack) \in Nat /\ issued' = issued
      /\ HasString /\ Top.item \notin Unprintable /\ stack # <<>>
  BY DEF CallInv, Inv, TypeOK, Register, HasString, InString
<1>2. Top = stack[Len(stack)] /\ Len(stack) >= 1
  BY <1>1, TopOfStack
<1>3. ~Fails(Top.item, DepthIn(stack, Len(stack)))
  BY <1>1, StringDoesNotFail
<1>4. /\ DOMAIN stack' = DOMAIN stack
      /\ \A j \in DOMAIN stack : j # Len(stack) => stack'[j] = stack[j]
      /\ stack'[Len(stack)].item = Top.item /\ stack'[Len(stack)].got = <<>>
  BY <1>1, RegisterShape
<1>5. ASSUME NEW j \in DOMAIN stack' PROVE FrameAnswers(stack', j)
  <2>1. j \in Nat /\ j >= 1 /\ j \in DOMAIN stack /\ 1 .. j \subseteq DOMAIN stack /\ j <= Len(stack)
    BY <1>1, <1>4, <1>5
  <2>2. CASE j = Len(stack)
    <3>1. \A i \in 1 .. j - 1 : stack'[i].does = stack[i].does /\ stack'[i].item = stack[i].item
      BY <1>4, <2>1, <2>2
    <3>2. DepthIn(stack', j) = DepthIn(stack, j)
      BY <2>1, <3>1, DepthSame
    <3> QED BY <1>2, <1>3, <1>4, <2>2, <3>2 DEF FrameAnswers
  <2>3. CASE j # Len(stack)
    <3>1. /\ \A i \in 1 .. j : stack'[i].does = stack[i].does /\ stack'[i].item = stack[i].item
          /\ stack'[j].got = stack[j].got
      BY <1>4, <2>1, <2>3
    <3>2. FrameAnswers(stack, j)
      BY <2>1 DEF AnswersOK
    <3> QED BY <2>1, <3>1, <3>2, AnswersStay
  <2> QED BY <2>2, <2>3
<1> QED BY <1>1, <1>5 DEF AnswersOK

LEMMA AnswersKeep ==
  ASSUME CallInv, AnswersOK, UnprintableHasNoNumber', [Next]_vars
  PROVE  AnswersOK'
<1>1. CASE ReturnNull \/ ReturnCached \/ Find \/ Discard \/ ReturnId
  BY <1>1, AnswersAfterReturn
<1>2. CASE Call
  BY <1>2, AnswersAfterCall
<1>3. CASE Register
  BY <1>3, AnswersAfterRegister
<1>4. CASE \/ Extract \/ \E t \in AstType : buildType(t)
           \/ \E x \in AstSymbol \cup AstSignature : getOtherId(x)
  <2>1. PICK f : stack' = <<f>> /\ f.got = <<>> /\ f.does # "after" /\ issued' = issued
    BY <1>4 DEF Extract, buildType, getOtherId, Called
  <2>2. \A j \in DOMAIN stack' : stack'[j].got = <<>> /\ stack'[j].does # "after"
    BY <2>1
  <2> QED BY <2>1, <2>2, NoAnswers DEF AnswersOK
<1>5. CASE Extracted
  <2>1. TypeOK /\ stack # <<>> /\ issued' = issued /\ stack' = Below
    BY <1>5 DEF Extracted, CallInv, Inv
  <2>2. /\ Len(stack) \in Nat /\ DOMAIN stack' = 1 .. Len(stack) - 1
        /\ \A j \in 1 .. Len(stack) - 1 : stack'[j] = stack[j]
        /\ DOMAIN stack = 1 .. Len(stack)
    BY <2>1, TopOfStack DEF TypeOK
  <2>3. ASSUME NEW j \in DOMAIN stack' PROVE FrameAnswers(stack', j)
    <3>1. j \in Nat /\ j >= 1 /\ j \in DOMAIN stack
      BY <2>2, <2>3
    <3>2. /\ \A i \in 1 .. j : stack'[i].does = stack[i].does /\ stack'[i].item = stack[i].item
          /\ stack'[j].got = stack[j].got
      BY <2>2, <2>3
    <3>3. FrameAnswers(stack, j)
      BY <3>1 DEF AnswersOK
    <3> QED BY <3>1, <3>2, <3>3, AnswersStay
  <2> QED BY <2>1, <2>3 DEF AnswersOK
<1>6. CASE LeaveShallow \/ Iterated \/ setProgram \/ UNCHANGED vars
  <2>1. stack' = stack /\ issued' = issued
    BY <1>6 DEF LeaveShallow, Iterated, setProgram, vars
  <2> QED BY <2>1 DEF AnswersOK
<1> QED BY <1>1, <1>2, <1>3, <1>4, <1>5, <1>6, StepKinds

-----------------------------------------------------------------------------
(* Rows of members.                                                        *)

LEMMA MembersFirst ==
  ASSUME TypeOK, StackOK, NEW j \in DOMAIN stack, stack[j].does = "members"
  PROVE  j = 1
<1>1. j \in Nat /\ j >= 1 /\ j <= Len(stack) /\ DOMAIN stack = 1 .. Len(stack) /\ Len(stack) \in Nat
  BY DEF TypeOK
<1>2. ASSUME j # 1 PROVE FALSE
  <2>1. j - 1 \in DOMAIN stack /\ j - 1 < Len(stack) /\ (j - 1) + 1 = j
    BY <1>1, <1>2
  <2>2. FrameOK(j - 1)
    BY <2>1 DEF StackOK
  <2> QED BY <2>1, <2>2 DEF FrameOK
<1> QED BY <1>2

\* No row of a member is made.
PlainRows ==
  \/ rows' = rows
  \/ \E row : rows' = Append(rows, row) /\ row.does # "members"

LEMMA RegisterRows ==
  ASSUME Register
  PROVE  PlainRows
<1> DEFINE v == <<KindOf(Top.item), Len(ids[KindOf(Top.item)])>>
           row == [does |-> "global", from |-> v, index |-> 0, to |-> v]
<1>1. rows' = rows \/ rows' = Append(rows, row)
  BY DEF Register
<1>2. row.does # "members"
  OBVIOUS
<1> HIDE DEF row
<1> QED BY <1>1, <1>2 DEF PlainRows

LEMMA FirstStep ==
  ASSUME CallInv, [Next]_vars, Extracting
  PROVE  \/ Extracted /\ stack' = <<>>
         \/ /\ Extracting' /\ stack'[1].item = stack[1].item /\ stack'[1].ref = stack[1].ref
            /\ \/ stack'[1].got = stack[1].got /\ PlainRows
               \/ stack'[1].got = Append(stack[1].got, None) /\ rows' = rows
               \/ \E v \in Ref :
                    /\ stack'[1].got = Append(stack[1].got, v)
                    /\ rows' = Append(rows, [does |-> "members", from |-> stack[1].ref,
                                             index |-> Len(stack[1].got) + 1, to |-> v])
                    /\ <<Members[stack[1].item][Len(stack[1].got) + 1], v>> \in issued'
<1>1. /\ TypeOK /\ StackOK /\ PhaseOK /\ stack \in Seq(Frame) /\ Len(stack) \in Nat /\ stack # <<>>
      /\ stack[1].does = "members" /\ 1 \in DOMAIN stack /\ Len(stack) >= 1
  BY DEF CallInv, Inv, TypeOK, Extracting
<1>2. Top = stack[Len(stack)] /\ Len(stack) \in DOMAIN stack /\ stack[1] \in Frame
  BY <1>1, TopOfStack
<1>3. CASE ReturnNull \/ ReturnCached \/ Find \/ Discard \/ ReturnId
  <2>1. PICK v \in Ref \cup {None} : Return(v) /\ Top.does \in {"string", "after"}
    <3>1. PICK w : Returns(w)
      BY <1>3, ReturningSteps DEF CallInv
    <3> QED BY <3>1 DEF Returns
  <2>2. Len(stack) # 1
    BY <1>1, <1>2, <2>1
  <2>3. /\ issued' = IF v = None THEN issued ELSE issued \cup {<<Top.item, v>>}
        /\ Len(stack') = Len(stack) - 1 /\ DOMAIN stack' = 1 .. Len(stack) - 1
        /\ \A j \in DOMAIN stack' :
             stack'[j] = IF j = Len(stack') THEN [stack[j] EXCEPT !.got = Append(@, v)]
                         ELSE stack[j]
        /\ rows' = IF stack[Len(stack')].does = "string" \/ v = None THEN rows
                   ELSE Append(rows, [does |-> stack[Len(stack')].does,
                                      from |-> stack[Len(stack')].ref,
                                      index |-> Len(stack[Len(stack')].got) + 1,
                                      to |-> v])
    BY <1>1, <2>1, <2>2, ReturnShape
  <2>4. 1 \in DOMAIN stack' /\ stack' # <<>>
    BY <1>1, <2>2, <2>3
  <2>5. CASE Len(stack) = 2
    <3>1. stack'[1] = [stack[1] EXCEPT !.got = Append(@, v)]
      BY <2>3, <2>4, <2>5
    <3>2. /\ stack'[1].does = "members" /\ stack'[1].item = stack[1].item
          /\ stack'[1].ref = stack[1].ref /\ stack'[1].got = Append(stack[1].got, v)
      BY <1>1, <1>2, <3>1 DEF Frame
    <3>3. rows' = IF v = None THEN rows
                  ELSE Append(rows, [does |-> "members", from |-> stack[1].ref,
                                     index |-> Len(stack[1].got) + 1, to |-> v])
      BY <1>1, <2>3, <2>5
    <3>4. Top.item = Members[stack[1].item][Len(stack[1].got) + 1]
      <4>1. FrameOK(1) /\ 1 < Len(stack) /\ 1 + 1 = Len(stack)
        BY <1>1, <2>5 DEF StackOK
      <4> QED BY <1>1, <1>2, <4>1 DEF FrameOK, Calls
    <3>5. v # None => <<Members[stack[1].item][Len(stack[1].got) + 1], v>> \in issued'
      BY <2>3, <3>4
    <3>6. Extracting'
      BY <2>4, <3>2 DEF Extracting
    <3> QED BY <3>2, <3>3, <3>5, <3>6
  <2>6. CASE Len(stack) # 2
    <3>1. stack'[1] = stack[1]
      BY <1>1, <2>2, <2>3, <2>4, <2>6
    <3>2. Len(stack') \in DOMAIN stack /\ Len(stack') # 1
      BY <1>1, <2>2, <2>3, <2>6
    <3>3. stack[Len(stack')].does # "members"
      BY <1>1, <3>2, MembersFirst
    <3>4. PlainRows
      BY <2>3, <3>3 DEF PlainRows
    <3> QED BY <1>1, <2>4, <3>1, <3>4 DEF Extracting
  <2> QED BY <2>5, <2>6
<1>4. CASE Call
  <2>1. CASE Calls(Top)[Len(Top.got) + 1] = None
    <3>1. /\ DOMAIN stack' = DOMAIN stack /\ Len(stack') = Len(stack)
          /\ \A i \in DOMAIN stack :
               stack'[i] = IF i = Len(stack) THEN [stack[i] EXCEPT !.got = Append(@, None)]
                           ELSE stack[i]
          /\ rows' = rows
      BY <1>1, <1>4, <2>1, NoneShape
    <3>2. stack'[1] = stack[1] \/ stack'[1] = [stack[1] EXCEPT !.got = Append(@, None)]
      BY <1>1, <3>1
    <3>3. /\ stack'[1].does = "members" /\ stack'[1].item = stack[1].item
          /\ stack'[1].ref = stack[1].ref
          /\ stack'[1].got = stack[1].got \/ stack'[1].got = Append(stack[1].got, None)
      BY <1>1, <1>2, <3>2 DEF Frame
    <3>4. stack' # <<>>
      BY <1>1, <3>1
    <3> QED BY <3>1, <3>3, <3>4 DEF Extracting, PlainRows
  <2>2. CASE Calls(Top)[Len(Top.got) + 1] # None
    <3>1. /\ Len(stack') = Len(stack) + 1
          /\ \A i \in DOMAIN stack : stack'[i] = stack[i]
          /\ rows' = rows
      BY <1>1, <1>4, <2>2, PushShape
    <3>2. stack' # <<>> /\ stack'[1] = stack[1]
      BY <1>1, <3>1
    <3> QED BY <1>1, <3>1, <3>2 DEF Extracting, PlainRows
  <2> QED BY <2>1, <2>2
<1>5. CASE Register
  <2>1. Top.does = "string"
    BY <1>5 DEF Register, HasString, InString
  <2>2. Len(stack) # 1
    BY <1>1, <1>2, <2>1
  <2>3. /\ Len(stack') = Len(stack)
        /\ \A j \in DOMAIN stack : j # Len(stack) => stack'[j] = stack[j]
    BY <1>1, <1>5, RegisterShape
  <2>4. stack' # <<>> /\ stack'[1] = stack[1]
    BY <1>1, <2>2, <2>3
  <2>5. PlainRows
    BY <1>5, RegisterRows
  <2> QED BY <1>1, <2>4, <2>5 DEF Extracting
<1>6. CASE Extracted
  <2>1. Top.does = "members" /\ stack' = Below
    BY <1>6 DEF Extracted
  <2>2. Len(stack) = 1
    BY <1>1, <1>2, <2>1, MembersFirst
  <2>3. Below = <<>>
    <3>1. Below \in Seq(Frame) /\ Len(Below) = 0
      BY <1>1, <2>2, TopOfStack
    <3> QED BY <3>1
  <2> QED BY <1>6, <2>1, <2>3
<1>7. ~LeaveShallow /\ ~Extract /\ ~Iterated
  BY <1>1 DEF LeaveShallow, Extract, Iterated, Iterating
<1>8. (\A t : ~buildType(t)) /\ (\A x : ~getOtherId(x)) /\ ~setProgram
  BY <1>1 DEF buildType, getOtherId, setProgram, PhaseOK
<1>9. CASE UNCHANGED vars
  BY <1>1, <1>9 DEF vars, Extracting, PlainRows
<1> QED BY <1>3, <1>4, <1>5, <1>6, <1>7, <1>8, <1>9, StepKinds

LEMMA OtherStep ==
  ASSUME CallInv, [Next]_vars, ~Extracting
  PROVE  PlainRows /\ (~Extracting' \/ Extract)
<1>1. /\ TypeOK /\ StackOK /\ PhaseOK /\ stack \in Seq(Frame) /\ Len(stack) \in Nat
      /\ stack # <<>> => stack[1].does # "members" /\ 1 \in DOMAIN stack /\ Len(stack) >= 1
  BY DEF CallInv, Inv, TypeOK, Extracting
<1>2. \A j \in DOMAIN stack : stack[j].does # "members"
  <2> SUFFICES ASSUME NEW j \in DOMAIN stack, stack[j].does = "members" PROVE FALSE
    OBVIOUS
  <2>1. j = 1
    BY <1>1, MembersFirst
  <2>2. stack # <<>>
    BY <1>1
  <2> QED BY <1>1, <2>1, <2>2
<1>3. CASE ReturnNull \/ ReturnCached \/ Find \/ Discard \/ ReturnId
  <2>1. PICK v \in Ref \cup {None} : Return(v) /\ stack # <<>>
    <3>1. PICK w : Returns(w)
      BY <1>3, ReturningSteps DEF CallInv
    <3> QED BY <3>1 DEF Returns
  <2>2. /\ Len(stack') = Len(stack) - 1 /\ DOMAIN stack' = 1 .. Len(stack) - 1
        /\ \A j \in DOMAIN stack' :
             /\ j \in DOMAIN stack
             /\ stack'[j] = IF j = Len(stack') THEN [stack[j] EXCEPT !.got = Append(@, v)]
                            ELSE stack[j]
        /\ Len(stack) = 1 => rows' = rows
        /\ Len(stack) # 1 =>
             rows' = IF stack[Len(stack')].does = "string" \/ v = None THEN rows
                     ELSE Append(rows, [does |-> stack[Len(stack')].does,
                                        from |-> stack[Len(stack')].ref,
                                        index |-> Len(stack[Len(stack')].got) + 1,
                                        to |-> v])
    BY <1>1, <2>1, ReturnShape
  <2>3. CASE Len(stack) = 1
    <3>1. DOMAIN stack' = {} /\ Len(stack') = 0 /\ PlainRows
      BY <2>2, <2>3 DEF PlainRows
    <3>2. stack' = <<>>
      BY <2>1, <2>3, TopOfStack, <1>1 DEF Return, Receive
    <3> QED BY <3>1, <3>2 DEF Extracting
  <2>4. CASE Len(stack) # 1
    <3>1. Len(stack') \in DOMAIN stack /\ 1 \in DOMAIN stack'
      BY <1>1, <2>1, <2>2, <2>4
    <3>2. PlainRows
      BY <1>2, <2>2, <2>4, <3>1 DEF PlainRows
    <3>3. stack'[1].does = stack[1].does
      <4>1. stack[1] \in Frame
        BY <1>1, <2>1
      <4> QED BY <2>2, <3>1, <4>1 DEF Frame
    <3> QED BY <1>1, <2>1, <3>2, <3>3 DEF Extracting
  <2> QED BY <2>3, <2>4
<1>4. CASE Call
  <2>0. stack # <<>>
    BY <1>4 DEF Call
  <2>1. CASE Calls(Top)[Len(Top.got) + 1] = None
    <3>1. /\ \A i \in DOMAIN stack :
               stack'[i] = IF i = Len(stack) THEN [stack[i] EXCEPT !.got = Append(@, None)]
                           ELSE stack[i]
          /\ rows' = rows
      BY <1>1, <1>4, <2>1, NoneShape
    <3>2. stack'[1] = stack[1] \/ stack'[1] = [stack[1] EXCEPT !.got = Append(@, None)]
      BY <1>1, <2>0, <3>1
    <3>3. stack'[1].does = stack[1].does
      <4>1. stack[1] \in Frame
        BY <1>1, <2>0
      <4> QED BY <3>2, <4>1 DEF Frame
    <3> QED BY <1>1, <2>0, <3>1, <3>3 DEF Extracting, PlainRows
  <2>2. CASE Calls(Top)[Len(Top.got) + 1] # None
    <3>1. /\ \A i \in DOMAIN stack : stack'[i] = stack[i]
          /\ rows' = rows
      BY <1>1, <1>4, <2>2, PushShape
    <3> QED BY <1>1, <2>0, <3>1 DEF Extracting, PlainRows
  <2> QED BY <2>1, <2>2
<1>5. CASE Register
  <2>0. stack # <<>> /\ Top.does = "string"
    BY <1>5 DEF Register, HasString, InString
  <2>1. /\ \A j \in DOMAIN stack : j # Len(stack) => stack'[j] = stack[j]
        /\ stack'[Len(stack)].does = "after"
    BY <1>1, <1>5, RegisterShape
  <2>2. stack'[1].does # "members"
    BY <1>1, <2>0, <2>1
  <2>3. PlainRows
    BY <1>5, RegisterRows
  <2> QED BY <2>2, <2>3 DEF Extracting
<1>6. ~Extracted
  <2> SUFFICES ASSUME Extracted PROVE FALSE
    OBVIOUS
  <2>1. stack # <<>> /\ Top.does = "members"
    BY DEF Extracted
  <2>2. Top = stack[Len(stack)] /\ Len(stack) \in DOMAIN stack
    BY <1>1, <2>1, TopOfStack
  <2> QED BY <1>2, <2>1, <2>2
<1>7. CASE LeaveShallow \/ Iterated \/ setProgram \/ UNCHANGED vars
  <2>1. stack' = stack /\ rows' = rows
    BY <1>7 DEF LeaveShallow, Iterated, setProgram, vars
  <2> QED BY <2>1 DEF Extracting, PlainRows
<1>8. CASE (\E t \in AstType : buildType(t)) \/ \E x \in AstSymbol \cup AstSignature : getOtherId(x)
  <2>1. PICK f : stack' = <<f>> /\ f.does = "string" /\ rows' = rows
    BY <1>8 DEF buildType, getOtherId, Called
  <2> QED BY <2>1 DEF Extracting, PlainRows
<1>9. CASE Extract
  BY <1>9 DEF Extract, PlainRows
<1> QED BY <1>3, <1>4, <1>5, <1>6, <1>7, <1>8, <1>9, StepKinds

LEMMA RowsGrow ==
  ASSUME CallInv, [Next]_vars
  PROVE  /\ rows \in Seq(Row) /\ Len(rows) \in Nat
         /\ \A n \in DOMAIN rows : n \in DOMAIN rows' /\ rows'[n] = rows[n]
         /\ PlainRows =>
              \A n \in DOMAIN rows' : rows'[n].does = "members" =>
                n \in DOMAIN rows /\ rows'[n] = rows[n]
<1>1. rows \in Seq(Row) /\ Len(rows) \in Nat
  BY DEF CallInv, Inv, TypeOK
<1>2. PlainRows \/ \E row : rows' = Append(rows, row)
  <2>1. CASE Extracting
    <3>1. CASE Extracted /\ stack' = <<>>
      BY <3>1 DEF Extracted, PlainRows
    <3>2. CASE rows' = rows
      BY <3>2 DEF PlainRows
    <3>3. CASE \E v \in Ref : rows' = Append(rows, [does |-> "members", from |-> stack[1].ref,
                                                    index |-> Len(stack[1].got) + 1, to |-> v])
      BY <3>3
    <3> QED BY <2>1, <3>1, <3>2, <3>3, FirstStep
  <2>2. CASE ~Extracting
    BY <2>2, OtherStep
  <2> QED BY <2>1, <2>2
<1>3. rows' = rows \/ \E row : rows' = Append(rows, row)
  BY <1>2 DEF PlainRows
<1>4. \A n \in DOMAIN rows : n \in DOMAIN rows' /\ rows'[n] = rows[n]
  <2>1. CASE rows' = rows
    BY <2>1
  <2>2. ASSUME NEW row, rows' = Append(rows, row)
        PROVE  \A n \in DOMAIN rows : n \in DOMAIN rows' /\ rows'[n] = rows[n]
    BY <1>1, <2>2
  <2> QED BY <1>3, <2>1, <2>2
<1>5. ASSUME PlainRows, NEW n \in DOMAIN rows', rows'[n].does = "members"
      PROVE  n \in DOMAIN rows /\ rows'[n] = rows[n]
  <2>1. CASE rows' = rows
    BY <1>5, <2>1
  <2>2. ASSUME NEW row, rows' = Append(rows, row), row.does # "members"
        PROVE  n \in DOMAIN rows /\ rows'[n] = rows[n]
    <3>1. n # Len(rows) + 1
      BY <1>1, <1>5, <2>2
    <3> QED BY <1>1, <1>5, <2>2, <3>1
  <2> QED BY <1>5, <2>1, <2>2 DEF PlainRows
<1> QED BY <1>1, <1>4, <1>5

LEMMA HasRowStays ==
  ASSUME CallInv, [Next]_vars, NEW v, NEW i, NEW m, HasRow(v, i, m)
  PROVE  HasRow(v, i, m)'
<1>1. PICK n \in DOMAIN rows :
        IsMember(rows[n], v) /\ rows[n].index = i /\ <<m, rows[n].to>> \in issued
  BY DEF HasRow
<1>2. n \in DOMAIN rows' /\ rows'[n] = rows[n]
  BY <1>1, RowsGrow
<1>3. <<m, rows'[n].to>> \in issued'
  BY <1>1, <1>2, IssuedGrows
<1> QED BY <1>1, <1>2, <1>3 DEF HasRow, IsMember

\* The only step after which a type counts as extracted.
LEMMA DoneFullBy ==
  ASSUME Inv, [Next]_vars, NEW n \in DOMAIN state', state'[n] = "DoneFull"
  PROVE  \/ n \in DOMAIN state /\ state[n] = "DoneFull"
         \/ Extract /\ n = NextEntry.id + 1
<1>1. state \in Seq(TypeExtractionState) /\ Len(state) \in Nat
  BY DEF Inv, TypeOK
<1>2. CASE state' = state
  BY <1>2
<1>3. CASE Find
  <2>1. PICK m \in Found : Promote(m) \/ state' = state
    BY <1>3 DEF Find
  <2>2. state' = state \/ state' = [state EXCEPT ![m + 1] = "PendingFull"]
    BY <2>1 DEF Promote
  <2> QED BY <1>1, <2>2
<1>4. CASE Register
  <2>1. state' = state \/ state' = Append(state, Pending)
    BY <1>4 DEF Register
  <2>2. Pending # "DoneFull"
    BY DEF Pending
  <2> QED BY <1>1, <2>1, <2>2
<1>5. CASE LeaveShallow
  <2>1. state' = [state EXCEPT ![NextEntry.id + 1] = "DoneShallow"]
    BY <1>5 DEF LeaveShallow
  <2> QED BY <1>1, <2>1
<1>6. CASE Extract
  <2>1. state' = [state EXCEPT ![NextEntry.id + 1] = "DoneFull"]
    BY <1>6 DEF Extract
  <2> QED BY <1>1, <1>6, <2>1
<1>7. Next => state' = state \/ Find \/ Register \/ LeaveShallow \/ Extract
  BY DEF Next, Step, buildType, getOtherId, setProgram, ReturnNull, ReturnCached, Call, Discard,
     ReturnId, Extracted, Iterated
<1> QED BY <1>2, <1>3, <1>4, <1>5, <1>6, <1>7 DEF vars

\* The entry that is taken from the worklist has not been extracted.
LEMMA ExtractShape ==
  ASSUME CallInv, Extract
  PROVE  /\ stack = <<>> /\ NextEntry.id \in Nat /\ NextEntry.type \in Type
         /\ NextEntry.id + 1 \in DOMAIN state /\ state[NextEntry.id + 1] # "DoneFull"
         /\ state'[NextEntry.id + 1] = "DoneFull"
         /\ <<NextEntry.type, <<"type", NextEntry.id>>>> \in issued
         /\ issued' = issued /\ rows' = rows
         /\ stack' # <<>> /\ stack'[1].does = "members" /\ stack'[1].item = NextEntry.type
         /\ stack'[1].ref = <<"type", NextEntry.id>> /\ stack'[1].got = <<>>
<1>1. /\ stack = <<>> /\ worklist # <<>> /\ Pop /\ issued' = issued /\ rows' = rows
      /\ state' = [state EXCEPT ![NextEntry.id + 1] = "DoneFull"]
      /\ stack' = <<[does |-> "members", item |-> NextEntry.type, ref |-> <<"type", NextEntry.id>>,
                     got |-> <<>>]>>
  BY DEF Extract, Iterating
<1>2. TypeOK /\ PendingIsQueued /\ EntriesKnown
  BY DEF CallInv, Inv
<1>3. /\ Len(worklist) \in DOMAIN worklist /\ worklist \in Seq([type: Type, id: Nat])
      /\ NextEntry = worklist[Len(worklist)]
  BY <1>1, <1>2 DEF TypeOK, NextEntry
<1>4. NextEntry \in [type: Type, id: Nat]
  <2> DEFINE S == [type: Type, id: Nat]
  <2>1. worklist \in Seq(S)
    BY <1>3
  <2> HIDE DEF S
  <2>2. NextEntry \in S
    BY <1>3, <2>1
  <2> QED BY <2>2 DEF S
<1>5. /\ NextEntry.id + 1 \in DOMAIN state /\ IsPending(NextEntry.id)
  BY <1>2, <1>3 DEF PendingIsQueued
<1>6. state \in Seq(TypeExtractionState)
  BY <1>2 DEF TypeOK
<1>7. Known(NextEntry.type, <<"type", NextEntry.id>>)
  BY <1>2, <1>3 DEF EntriesKnown
<1>8. <<NextEntry.type, <<"type", NextEntry.id>>>> \in issued
  BY <1>1, <1>7 DEF Known
<1>9. state'[NextEntry.id + 1] = "DoneFull"
  BY <1>1, <1>5, <1>6
<1>10. state[NextEntry.id + 1] # "DoneFull"
  BY <1>5 DEF IsPending
<1> HIDE DEF NextEntry
<1>11. stack' # <<>> /\ stack'[1].does = "members" /\ stack'[1].item = NextEntry.type
       /\ stack'[1].ref = <<"type", NextEntry.id>> /\ stack'[1].got = <<>>
  BY <1>1
<1> QED BY <1>1, <1>4, <1>5, <1>8, <1>9, <1>10, <1>11

\* What counts as extracted does so for ever.
LEMMA DoneFullStays ==
  ASSUME Inv, [Next]_vars, NEW n \in DOMAIN state, state[n] = "DoneFull"
  PROVE  n \in DOMAIN state' /\ state'[n] = "DoneFull"
BY StateAdvances

LEMMA AppendIs ==
  ASSUME NEW S, NEW s \in Seq(S), NEW e
  PROVE  /\ DOMAIN Append(s, e) = 1 .. Len(s) + 1 /\ DOMAIN s = 1 .. Len(s) /\ Len(s) \in Nat
         /\ Append(s, e)[Len(s) + 1] = e
         /\ \A n \in DOMAIN s : Append(s, e)[n] = s[n]
OBVIOUS

LEMMA RowsKeep ==
  ASSUME CallInv, MembersOK, [Next]_vars
  PROVE  RowsOK'
<1>1. /\ rows \in Seq(Row) /\ Len(rows) \in Nat /\ Inv
      /\ \A n \in DOMAIN rows : n \in DOMAIN rows' /\ rows'[n] = rows[n]
  BY RowsGrow DEF CallInv
<1>2. CASE PlainRows
  <2>1. \A n \in DOMAIN rows' :
          rows'[n].does = "members" => n \in DOMAIN rows /\ rows'[n] = rows[n]
    BY <1>2, RowsGrow
  <2>2. ASSUME NEW n \in DOMAIN rows', rows'[n].does = "members"
        PROVE  /\ rows'[n].from[2] + 1 \in DOMAIN state'
               /\ state'[rows'[n].from[2] + 1] = "DoneFull"
    <3>1. n \in DOMAIN rows /\ rows'[n] = rows[n]
      BY <2>1, <2>2
    <3>2. rows[n].from[2] + 1 \in DOMAIN state /\ state[rows[n].from[2] + 1] = "DoneFull"
      BY <2>2, <3>1 DEF MembersOK, RowsOK
    <3> QED BY <1>1, <3>1, <3>2, DoneFullStays
  <2>3. ASSUME NEW m \in DOMAIN rows', NEW n \in DOMAIN rows', rows'[m].does = "members",
               IsMember(rows'[n], rows'[m].from), rows'[m].index = rows'[n].index
        PROVE  m = n
    <3>1. rows'[n].does = "members"
      BY <2>3 DEF IsMember
    <3>2. m \in DOMAIN rows /\ n \in DOMAIN rows /\ rows'[m] = rows[m] /\ rows'[n] = rows[n]
      BY <2>1, <2>3, <3>1
    <3> QED BY <2>3, <3>2 DEF MembersOK, RowsOK
  <2> QED BY <2>2, <2>3 DEF RowsOK
<1>3. CASE ~PlainRows
  <2>1. Extracting
    BY <1>3, OtherStep
  <2>2. PICK v \in Ref :
          rows' = Append(rows, [does |-> "members", from |-> stack[1].ref,
                                index |-> Len(stack[1].got) + 1, to |-> v])
    <3>1. ~(Extracted /\ stack' = <<>>) /\ rows' # rows
      BY <1>3 DEF Extracted, PlainRows
    <3> QED BY <1>3, <2>1, <3>1, FirstStep
  <2> PICK row : row = [does |-> "members", from |-> stack[1].ref,
                        index |-> Len(stack[1].got) + 1, to |-> v]
    OBVIOUS
  <2>3. /\ rows' = Append(rows, row) /\ row.does = "members" /\ row.from = stack[1].ref
        /\ row.index = Len(stack[1].got) + 1
    BY <2>2
  <2>4. /\ stack[1].ref[2] + 1 \in DOMAIN state
        /\ state[stack[1].ref[2] + 1] = "DoneFull"
        /\ \A n \in DOMAIN rows :
             IsMember(rows[n], stack[1].ref) => rows[n].index \in DOMAIN stack[1].got
    BY <2>1 DEF MembersOK, ExtractingOK
  <2>5. \A n \in DOMAIN rows' : n \in DOMAIN rows \/ (n = Len(rows) + 1 /\ rows'[n] = row)
    <3>1. /\ DOMAIN rows' = 1 .. Len(rows) + 1 /\ DOMAIN rows = 1 .. Len(rows)
          /\ rows'[Len(rows) + 1] = row
      BY <1>1, <2>3, AppendIs
    <3>2. \A n \in 1 .. Len(rows) + 1 : n \in 1 .. Len(rows) \/ n = Len(rows) + 1
      BY <1>1
    <3> QED BY <3>1, <3>2
  <2>6. row.index \notin DOMAIN stack[1].got
    <3>1. stack[1] \in Frame
      <4>1. stack \in Seq(Frame) /\ stack # <<>>
        BY <2>1 DEF CallInv, Inv, TypeOK, Extracting
      <4> QED BY <4>1
    <3>2. stack[1].got \in Seq(Ref \cup {None})
      BY <3>1 DEF Frame
    <3> QED BY <2>3, <3>2
  <2>7. ASSUME NEW n \in DOMAIN rows', rows'[n].does = "members"
        PROVE  /\ rows'[n].from[2] + 1 \in DOMAIN state'
               /\ state'[rows'[n].from[2] + 1] = "DoneFull"
    <3>1. rows'[n].from[2] + 1 \in DOMAIN state /\ state[rows'[n].from[2] + 1] = "DoneFull"
      <4>1. CASE n \in DOMAIN rows
        BY <1>1, <2>7, <4>1 DEF MembersOK, RowsOK
      <4>2. CASE n \notin DOMAIN rows
        BY <2>3, <2>4, <2>5, <4>2
      <4> QED BY <4>1, <4>2
    <3> QED BY <1>1, <3>1, DoneFullStays
  <2>8. ASSUME NEW m \in DOMAIN rows', NEW n \in DOMAIN rows', rows'[m].does = "members",
               IsMember(rows'[n], rows'[m].from), rows'[m].index = rows'[n].index
        PROVE  m = n
    <3>1. CASE m \in DOMAIN rows /\ n \in DOMAIN rows
      BY <1>1, <2>8, <3>1 DEF MembersOK, RowsOK
    <3>2. CASE m \in DOMAIN rows /\ n \notin DOMAIN rows
      <4>1. rows'[n] = row /\ rows'[m] = rows[m]
        BY <1>1, <2>5, <3>2
      <4>2. IsMember(rows[m], stack[1].ref)
        BY <2>3, <2>8, <4>1 DEF IsMember
      <4> QED BY <2>4, <2>6, <2>8, <3>2, <4>1, <4>2
    <3>3. CASE m \notin DOMAIN rows /\ n \in DOMAIN rows
      <4>1. rows'[m] = row /\ rows'[n] = rows[n]
        BY <1>1, <2>5, <3>3
      <4>2. IsMember(rows[n], stack[1].ref)
        BY <2>3, <2>8, <4>1 DEF IsMember
      <4> QED BY <2>4, <2>6, <2>8, <3>3, <4>1, <4>2
    <3>4. CASE m \notin DOMAIN rows /\ n \notin DOMAIN rows
      BY <2>5, <3>4
    <3> QED BY <3>1, <3>2, <3>3, <3>4
  <2> QED BY <2>7, <2>8 DEF RowsOK
<1> QED BY <1>2, <1>3

LEMMA ExtractingKeeps ==
  ASSUME CallInv, CallInv', MembersOK, [Next]_vars
  PROVE  ExtractingOK'
<1>1. /\ rows \in Seq(Row) /\ Len(rows) \in Nat /\ Inv /\ TypeOK
      /\ \A n \in DOMAIN rows : n \in DOMAIN rows' /\ rows'[n] = rows[n]
  BY RowsGrow DEF CallInv, Inv
<1>2. CASE Extracting
  <2>1. /\ <<stack[1].item, stack[1].ref>> \in issued
        /\ stack[1].ref[2] + 1 \in DOMAIN state
        /\ state[stack[1].ref[2] + 1] = "DoneFull"
        /\ \A n \in DOMAIN rows :
             IsMember(rows[n], stack[1].ref) => rows[n].index \in DOMAIN stack[1].got
        /\ \A i \in DOMAIN stack[1].got :
             stack[1].got[i] # None => HasRow(stack[1].ref, i, Members[stack[1].item][i])
    BY <1>2 DEF MembersOK, ExtractingOK
  <2>2. stack[1].got \in Seq(Ref \cup {None})
    <3>1. stack \in Seq(Frame) /\ stack # <<>>
      BY <1>1, <1>2 DEF TypeOK, Extracting
    <3>2. stack[1] \in Frame
      BY <3>1
    <3> QED BY <3>2 DEF Frame
  <2> PICK g : g = stack[1].got
    OBVIOUS
  <2> PICK r : r = stack[1].ref
    OBVIOUS
  <2> PICK t : t = stack[1].item
    OBVIOUS
  <2>3. CASE Extracted /\ stack' = <<>>
    BY <2>3 DEF ExtractingOK, Extracting
  <2>4. ASSUME stack'[1].item = t, stack'[1].ref = r, NEW v \in Ref \cup {None},
               \/ stack'[1].got = g /\ PlainRows
               \/ stack'[1].got = Append(g, None) /\ rows' = rows
               \/ /\ stack'[1].got = Append(g, v) /\ v # None
                  /\ rows' = Append(rows, [does |-> "members", from |-> r,
                                           index |-> Len(g) + 1, to |-> v])
                  /\ <<Members[t][Len(g) + 1], v>> \in issued'
        PROVE  ExtractingOK'
    <3>1. <<t, r>> \in issued' /\ r[2] + 1 \in DOMAIN state' /\ state'[r[2] + 1] = "DoneFull"
      BY <1>1, <2>1, IssuedGrows, DoneFullStays
    <3>2. \A i \in DOMAIN g : g[i] # None => HasRow(r, i, Members[t][i])'
      <4> SUFFICES ASSUME NEW i \in DOMAIN g, g[i] # None PROVE HasRow(r, i, Members[t][i])'
        OBVIOUS
      <4> PICK m : m = Members[t][i]
        OBVIOUS
      <4>1. HasRow(r, i, m)
        BY <2>1
      <4>2. HasRow(r, i, m)'
        BY <4>1, HasRowStays
      <4> QED BY <4>2
    <3>3. CASE stack'[1].got = g /\ PlainRows
      <4>1. ASSUME NEW n \in DOMAIN rows', IsMember(rows'[n], r) PROVE rows'[n].index \in DOMAIN g
        <5>1. n \in DOMAIN rows /\ rows'[n] = rows[n]
          BY <3>3, <4>1, RowsGrow DEF IsMember
        <5> QED BY <2>1, <4>1, <5>1
      <4> QED BY <2>4, <3>1, <3>2, <3>3, <4>1 DEF ExtractingOK
    <3>4. CASE stack'[1].got = Append(g, None) /\ rows' = rows
      <4>1. \A i \in DOMAIN stack'[1].got :
              stack'[1].got[i] # None => i \in DOMAIN g /\ stack'[1].got[i] = g[i]
        BY <2>2, <3>4
      <4>2. DOMAIN g \subseteq DOMAIN stack'[1].got
        BY <2>2, <3>4
      <4> QED BY <2>1, <2>4, <3>1, <3>2, <3>4, <4>1, <4>2 DEF ExtractingOK
    <3>5. CASE /\ stack'[1].got = Append(g, v) /\ v # None
               /\ rows' = Append(rows, [does |-> "members", from |-> r,
                                        index |-> Len(g) + 1, to |-> v])
               /\ <<Members[t][Len(g) + 1], v>> \in issued'
      <4> PICK row : row = [does |-> "members", from |-> r, index |-> Len(g) + 1, to |-> v]
        OBVIOUS
      <4>1. /\ row.does = "members" /\ row.from = r /\ row.index = Len(g) + 1 /\ row.to = v
            /\ rows' = Append(rows, row)
        BY <3>5
      <4>2. /\ DOMAIN rows' = 1 .. Len(rows) + 1 /\ DOMAIN rows = 1 .. Len(rows)
            /\ rows'[Len(rows) + 1] = row
        BY <1>1, <4>1, AppendIs
      <4>3. /\ DOMAIN stack'[1].got = 1 .. Len(g) + 1 /\ DOMAIN g = 1 .. Len(g) /\ Len(g) \in Nat
            /\ \A i \in DOMAIN g : stack'[1].got[i] = g[i]
        BY <2>2, <3>5, AppendIs
      <4>4. \A n \in 1 .. Len(rows) + 1 : n \in 1 .. Len(rows) \/ n = Len(rows) + 1
        BY <1>1
      <4>5. \A i \in 1 .. Len(g) + 1 : i \in 1 .. Len(g) \/ i = Len(g) + 1
        BY <4>3
      <4>6. ASSUME NEW n \in DOMAIN rows', IsMember(rows'[n], r)
            PROVE  rows'[n].index \in DOMAIN stack'[1].got
        <5>1. CASE n \in DOMAIN rows
          <6>1. rows'[n].index \in DOMAIN g
            BY <1>1, <2>1, <4>6, <5>1
          <6> QED BY <4>3, <6>1
        <5>2. CASE n \notin DOMAIN rows
          <6>1. rows'[n].index = Len(g) + 1
            BY <4>1, <4>2, <4>4, <5>2
          <6> QED BY <4>3, <6>1
        <5> QED BY <5>1, <5>2
      <4>7. Len(rows) + 1 \in DOMAIN rows'
        BY <1>1, <4>2
      <4>8. HasRow(r, Len(g) + 1, Members[t][Len(g) + 1])'
        BY <3>5, <4>1, <4>2, <4>7 DEF HasRow, IsMember
      <4>9. \A i \in DOMAIN stack'[1].got :
              stack'[1].got[i] # None => HasRow(r, i, Members[t][i])'
        BY <3>2, <4>3, <4>5, <4>8
      <4> QED BY <2>4, <3>1, <4>6, <4>9 DEF ExtractingOK
    <3> QED BY <2>4, <3>3, <3>4, <3>5
  <2>5. \A v \in Ref : v # None
    BY TypeTableAssumption
  <2> QED BY <1>2, <2>3, <2>4, <2>5, FirstStep
<1>3. CASE ~Extracting
  <2>1. CASE ~Extracting'
    BY <2>1 DEF ExtractingOK
  <2>2. CASE Extract
    <3> PICK k : k = NextEntry.id
      OBVIOUS
    <3>1. /\ k \in Nat /\ k + 1 \in DOMAIN state /\ state[k + 1] # "DoneFull"
          /\ state'[k + 1] = "DoneFull"
          /\ <<stack'[1].item, <<"type", k>>>> \in issued'
          /\ rows' = rows
          /\ stack'[1].ref = <<"type", k>> /\ stack'[1].got = <<>>
      BY <2>2, ExtractShape
    <3>2. k + 1 \in DOMAIN state'
      BY <1>1, <3>1, StateAdvances
    <3>3. \A n \in DOMAIN rows : ~IsMember(rows[n], <<"type", k>>)
      BY <3>1 DEF MembersOK, RowsOK, IsMember
    <3> QED BY <3>1, <3>2, <3>3 DEF ExtractingOK
  <2> QED BY <1>3, <2>1, <2>2, OtherStep
<1> QED BY <1>2, <1>3

LEMMA FinishedKeeps ==
  ASSUME CallInv, AnswersOK, MembersOK, [Next]_vars
  PROVE  FinishedOK'
<1>1. TypeOK /\ StackOK /\ IssuedOK /\ Inv
  BY DEF CallInv, Inv
<1>2. ASSUME NEW k \in Nat, Finished(k) PROVE Finished(k)'
  <2>1. PICK t \in Type :
          /\ <<t, <<"type", k>>>> \in issued
          /\ \A i \in DOMAIN Members[t] :
               Fails(Members[t][i], 0) \/ HasRow(<<"type", k>>, i, Members[t][i])
    BY <1>2 DEF Finished
  <2>2. ASSUME NEW i \in DOMAIN Members[t]
        PROVE  Fails(Members[t][i], 0) \/ HasRow(<<"type", k>>, i, Members[t][i])'
    <3> PICK m : m = Members[t][i]
      OBVIOUS
    <3> PICK r : r = <<"type", k>>
      OBVIOUS
    <3>1. HasRow(r, i, m) => HasRow(r, i, m)'
      BY HasRowStays
    <3> QED BY <2>1, <3>1
  <2>3. <<t, <<"type", k>>>> \in issued'
    BY <2>1, IssuedGrows
  <2> QED BY <2>2, <2>3 DEF Finished
<1> SUFFICES ASSUME NEW k \in Nat, k + 1 \in DOMAIN state', state'[k + 1] = "DoneFull",
                    ~InExtraction(<<"type", k>>)'
             PROVE  Finished(k)'
  BY DEF FinishedOK
<1>3. k + 1 \in DOMAIN state /\ state[k + 1] = "DoneFull"
  <2>1. ASSUME Extract, k + 1 = NextEntry.id + 1 PROVE FALSE
    <3>1. NextEntry.id \in Nat /\ stack' # <<>> /\ stack'[1].does = "members"
          /\ stack'[1].ref = <<"type", NextEntry.id>>
      BY <2>1, ExtractShape
    <3>2. k = NextEntry.id
      BY <2>1, <3>1
    <3> QED BY <3>1, <3>2 DEF InExtraction
  <2> QED BY <1>1, <2>1, DoneFullBy
<1>4. CASE ~InExtraction(<<"type", k>>)
  <2>1. Finished(k)
    BY <1>3, <1>4 DEF MembersOK, FinishedOK
  <2> QED BY <1>2, <2>1
<1>5. CASE InExtraction(<<"type", k>>)
  <2>1. Extracting /\ stack[1].ref = <<"type", k>>
    BY <1>5 DEF InExtraction, Extracting
  <2>2. Extracted /\ stack' = <<>>
    <3>1. ~(Extracting' /\ stack'[1].ref = stack[1].ref)
      BY <2>1 DEF InExtraction, Extracting
    <3> QED BY <2>1, <3>1, FirstStep
  <2>3. /\ stack \in Seq(Frame) /\ stack # <<>> /\ 1 \in DOMAIN stack /\ stack[1] \in Frame
        /\ stack[1].does = "members" /\ Len(stack) \in Nat
    <3>1. stack \in Seq(Frame) /\ stack # <<>> /\ stack[1].does = "members"
      BY <1>1, <2>1 DEF TypeOK, Extracting
    <3> QED BY <3>1
  <2>4. Len(stack) = 1 /\ Top = stack[1] /\ Len(Top.got) = Len(Members[Top.item])
    <3>1. Top.does = "members" /\ Len(Top.got) = Len(Members[Top.item])
      BY <2>2 DEF Extracted
    <3>2. Top = stack[Len(stack)] /\ Len(stack) \in DOMAIN stack
      BY <1>1, <2>3, TopOfStack
    <3>3. Len(stack) = 1
      BY <1>1, <3>1, <3>2, MembersFirst
    <3> QED BY <3>1, <3>2, <3>3
  <2> PICK t : t = stack[1].item
    OBVIOUS
  <2>5. t \in Type
    <3>1. FrameOK(1)
      BY <1>1, <2>3 DEF StackOK
    <3> QED BY <2>3, <3>1 DEF FrameOK
  <2>6. /\ <<t, <<"type", k>>>> \in issued
        /\ \A i \in DOMAIN stack[1].got :
             stack[1].got[i] # None => HasRow(<<"type", k>>, i, Members[t][i])
    BY <2>1 DEF MembersOK, ExtractingOK
  <2>7. DOMAIN Members[t] = DOMAIN stack[1].got
    <3>1. Members[t] \in Seq(Item \cup {None}) /\ stack[1].got \in Seq(Ref \cup {None})
      BY <2>3, <2>5, TypeTableAssumption DEF Frame
    <3> QED BY <2>4, <3>1
  <2>8. \A i \in DOMAIN stack[1].got : stack[1].got[i] = None <=> Fails(Members[t][i], 0)
    <3>1. DepthIn(stack, 1) = 0 /\ DepthIn(stack, 1 + 1) = DepthIn(stack, 1)
      <4> PICK j \in Nat : j = 1
        OBVIOUS
      <4>1. DepthIn(stack, 1) = 0
        BY DepthNext
      <4>2. stack[j].does = "members" /\ j >= 1
        BY <2>3
      <4>3. DepthIn(stack, j + 1) = DepthIn(stack, j)
        BY <4>2, DepthNext
      <4> QED BY <4>1, <4>3
    <3>2. FrameAnswers(stack, 1) /\ Calls(stack[1]) = Members[t]
      BY <2>3 DEF AnswersOK, Calls
    <3> QED BY <3>1, <3>2 DEF FrameAnswers
  <2>9. Finished(k)
    BY <2>5, <2>6, <2>7, <2>8 DEF Finished
  <2> QED BY <1>2, <2>9
<1> QED BY <1>4, <1>5

\* From the invariant: the object that was extracted has the members of every other with its
\* number, and a member that has a number anywhere has one here.
LEMMA OneRow ==
  ASSUME Inv, AnswersOK, MembersOK, OneTypePerNumber,
         NEW p \in issued, p[1] \in Type, state[p[2][2] + 1] = "DoneFull", ~InExtraction(p[2]),
         NEW i \in DOMAIN Members[p[1]], NEW q \in issued, q[1] = Members[p[1]][i]
  PROVE  /\ Cardinality({n \in DOMAIN rows : /\ rows[n].does = "members"
                                           /\ rows[n].from = p[2] /\ rows[n].index = i}) = 1
         /\ q[1] \in Firm =>
              \A n \in {n \in DOMAIN rows : /\ rows[n].does = "members"
                                           /\ rows[n].from = p[2] /\ rows[n].index = i} :
                rows[n].to = q[2]
<1> DEFINE made == {n \in DOMAIN rows : /\ rows[n].does = "members"
                                        /\ rows[n].from = p[2] /\ rows[n].index = i}
<1>1. TypeOK /\ IssuedOK /\ Functional
  BY DEF Inv
<1>2. p = <<p[1], p[2]>> /\ q = <<q[1], q[2]>> /\ p[2] \in Ref /\ q[1] \in Item /\ q[2] \in Ref
      /\ p[1] \in Item
  BY <1>1 DEF TypeOK
<1>3. p[2][1] = "type" /\ p[2][2] \in Nat /\ p[2][2] < Len(ids["type"]) /\ p[2] = <<"type", p[2][2]>>
  <2>1. Describes(p[2], p[1])
    BY <1>1, <1>2 DEF IssuedOK
  <2>2. p[2][1] = "type"
    BY <1>2, <2>1, KindOfItem DEF Describes
  <2> QED BY <1>2, <2>1, <2>2 DEF Describes, Ref
<1> PICK k : k = p[2][2]
  OBVIOUS
<1>4. k \in Nat /\ k + 1 \in DOMAIN state /\ p[2] = <<"type", k>>
  BY <1>1, <1>3 DEF TypeOK
<1>5. PICK t \in Type :
        /\ <<t, <<"type", k>>>> \in issued
        /\ \A j \in DOMAIN Members[t] :
             Fails(Members[t][j], 0) \/ HasRow(<<"type", k>>, j, Members[t][j])
  BY <1>4 DEF MembersOK, FinishedOK, Finished
<1>6. Members[t] = Members[p[1]]
  <2> DEFINE r == <<t, <<"type", k>>>>
  <2>1. r \in issued /\ r[1] = t /\ r[2] = p[2]
    BY <1>4, <1>5
  <2> HIDE DEF r
  <2>2. {r[1], p[1]} \subseteq Type
    BY <2>1
  <2>3. Members[r[1]] = Members[p[1]]
    BY <2>1, <2>2 DEF OneTypePerNumber
  <2> QED BY <2>1, <2>3
<1>7. ~Fails(q[1], 0)
  BY DEF AnswersOK
<1>8. HasRow(p[2], i, q[1])
  BY <1>4, <1>5, <1>6, <1>7
<1>9. PICK n \in DOMAIN rows :
        IsMember(rows[n], p[2]) /\ rows[n].index = i /\ <<q[1], rows[n].to>> \in issued
  BY <1>8 DEF HasRow
<1>10. made = {n}
  <2>1. n \in made
    BY <1>9 DEF IsMember
  <2>2. ASSUME NEW m \in made PROVE m = n
    <3>1. m \in DOMAIN rows /\ rows[m].does = "members" /\ rows[m].from = p[2] /\ rows[m].index = i
      OBVIOUS
    <3>2. IsMember(rows[n], rows[m].from) /\ rows[m].index = rows[n].index
      BY <1>9, <3>1
    <3> QED BY <3>1, <3>2 DEF MembersOK, RowsOK
  <2> QED BY <2>1, <2>2
<1>11. Cardinality(made) = 1
  BY <1>10, FS_Singleton
<1>12. ASSUME q[1] \in Firm PROVE rows[n].to = q[2]
  <2>1. rows[n].to \in Ref
    BY <1>1, <1>9 DEF TypeOK
  <2>2. <<q[1], q[2]>> \in issued
    BY <1>2
  <2> QED BY <1>1, <1>2, <1>9, <1>12, <2>1, <2>2 DEF Functional
<1> QED BY <1>10, <1>11, <1>12

LEMMA MembersWhenExtracted ==
  ASSUME Inv, AnswersOK, MembersOK, OneTypePerNumber
  PROVE  MembersAreComplete
BY OneRow DEF MembersAreComplete

\* A type that counts as extracted has the rows of its members, once, although the calls for
\* them may promote it, find it by another object, or meet themselves: if objects with one
\* number have the same members and what the compiler cannot print is not found by another.
THEOREM ExtractedInFull ==
  Spec /\ []OneTypePerNumber /\ []UnprintableHasNoNumber => []MembersAreComplete
<1> DEFINE I == AnswersOK /\ MembersOK
<1>1. Init => I
  BY DEF Init, AnswersOK, MembersOK, RowsOK, ExtractingOK, Extracting, FinishedOK
<1>2. CallInv /\ CallInv' /\ UnprintableHasNoNumber' /\ I /\ [Next]_vars => I'
  BY AnswersKeep, RowsKeep, ExtractingKeeps, FinishedKeeps DEF MembersOK
<1>3. CallInv /\ OneTypePerNumber /\ I => MembersAreComplete
  BY MembersWhenExtracted DEF CallInv
<1> HIDE DEF I
<1> QED BY <1>1, <1>2, <1>3, CallsInvariant, PTL DEF Spec
=============================================================================
