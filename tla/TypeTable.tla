----------------------------- MODULE TypeTable -----------------------------
(***************************************************************************)
(* The type table of the TypeScript parser process: it gives numbers to    *)
(* the types, symbols and signatures that the syntax trees mention, and    *)
(* describes each by a string over the numbers of its parts.  Everything   *)
(* runs on one thread, but re-entrantly: the string of a type needs the    *)
(* numbers of its parts, a new symbol those of its base types.  The call   *)
(* stack is explicit, one frame for each call of getId, getSymbolId or     *)
(* getSignatureId and one for the worklist entry being extracted.          *)
(*                                                                         *)
(* The compiler's objects are data, an element for each object (for a type *)
(* alias one for the name and one for what it stands for: unfoldAlias); an *)
(* infinite type is one that is its own part.                              *)
(***************************************************************************)
EXTENDS Integers, Sequences, FiniteSets

CONSTANTS
  Type, Symbol, Signature, File,  \* the objects of the compiler
  None,                     \* null
  Tag,         \* [Item -> what a string has besides numbers, None if unsupported]
  Parts,       \* [Item -> Seq(Item)]: whose numbers the string has
  Optional,    \* <<x, i>>: the string of x goes on without its i-th part (constraints)
  Firm,        \* items without such a part in their strings, at any depth
  After,       \* [Item -> Seq(Symbol)]: base types of a symbol, symbol of a self type
  Members,     \* [Type -> Seq(Item)]: `then`, signatures, index types; of an alias
               \* the type it stands for; None where the compiler fails
  Global,      \* isGlobalSymbol
  Alias,       \* types with an aliasSymbol, not unfolded
  AlwaysSafe,  \* isTypeAlwaysSafeToExpand
  Unprintable, \* typeToString or signatureToString fails
  MaxDepth,    \* 100 in the code
  AstType, AstSymbol, AstSignature  \* what nodes of syntax trees have

Item == Type \cup Symbol \cup Signature \cup File

Kind == {"type", "symbol", "signature", "file"}

\* A number with the table it belongs to.
Ref == Kind \X Nat

ASSUME TypeTableAssumption ==
  /\ None \notin Item \cup Ref
  /\ Type \cap Symbol = {} /\ (Type \cup Symbol) \cap Signature = {}
  /\ (Type \cup Symbol \cup Signature) \cap File = {}
  /\ Parts \in [Item -> Seq(Item \cup {None})]
  /\ Firm \subseteq Item
  /\ \A x \in Firm : \A i \in DOMAIN Parts[x] :
       <<x, i>> \notin Optional /\ Parts[x][i] \in Firm \cup {None}
  /\ After \in [Item -> Seq(Symbol)]
  /\ Members \in [Type -> Seq(Item \cup {None})]
  /\ Alias \subseteq Type /\ AlwaysSafe \subseteq Type
  /\ MaxDepth \in Nat
  /\ AstType \subseteq Type /\ AstSymbol \subseteq Symbol /\ AstSignature \subseteq Signature
  /\ \A y \in Symbol \cup File :
       /\ Tag[y] # None /\ y \notin Unprintable
       /\ Parts[y] \in Seq(IF y \in Symbol THEN Symbol \cup File ELSE {})
       /\ y \in File => After[y] = <<>>

VARIABLES
  ids,       \* typeIds, symbolIds, signatureIds, fileIds: the strings in the order of their numbers
  state,     \* typeExtractionState
  worklist,  \* buildTypeWorklist
  shallow,   \* isInShallowTypeContext
  cached,    \* $id of the symbol objects of the open program
  rows,      \* the mapping tables of staggered arrays
  stack,     \* calls in progress
  phase,     \* which call from augmentAst is in progress
  issued,    \* <<x, v>>: a call for x has returned the number v (history)
  built      \* the numbers that buildType has returned (history)

vars == <<ids, state, worklist, shallow, cached, rows, stack, phase, issued, built>>

KindOf(x) ==
  IF x \in Type THEN "type" ELSE IF x \in Symbol THEN "symbol"
  ELSE IF x \in Signature THEN "signature" ELSE "file"

TypeExtractionState == {"PendingShallow", "DoneShallow", "PendingFull", "DoneFull"}

Content == [tag: {Tag[x] : x \in Item}, parts: Seq(Ref \cup {None})]

\* "string": flattening item to its string.  "after": item has its number ref, the
\* symbols that follow are being asked for.  "members": iterateBuildTypeWorklist.
Frame == [does: {"string", "after", "members"}, item: Item, ref: Ref \cup {None},
          got: Seq(Ref \cup {None})]

Row == [does: {"after", "members", "global"}, from: Ref, index: Nat, to: Ref]

TypeOK ==
  /\ ids \in [Kind -> Seq(Content)]
  /\ state \in Seq(TypeExtractionState) /\ Len(state) = Len(ids["type"])
  /\ worklist \in Seq([type: Type, id: Nat])
  /\ shallow \in BOOLEAN
  /\ cached \in [Symbol -> Ref \cup {None}]
  /\ rows \in Seq(Row)
  /\ stack \in Seq(Frame)
  /\ phase \in {"idle", "ask", "build", "iterate"}
  /\ issued \subseteq Item \X Ref
  /\ built \subseteq Ref

Init ==
  /\ ids = [k \in Kind |-> <<>>]
  /\ state = <<>> /\ worklist = <<>> /\ shallow = FALSE
  /\ cached = [y \in Symbol |-> None]
  /\ rows = <<>> /\ stack = <<>> /\ phase = "idle"
  /\ issued = {} /\ built = {}

-----------------------------------------------------------------------------
(* The call stack.                                                         *)

Top == stack[Len(stack)]

Below == SubSeq(stack, 1, Len(stack) - 1)

\* The calls that a frame makes, in their order.
Calls(f) ==
  IF f.does = "string" THEN Parts[f.item]
  ELSE IF f.does = "after" THEN After[f.item] ELSE Members[f.item]

Called(x) == [does |-> "string", item |-> x, ref |-> None, got |-> <<>>]

\* The frame on top of frames receives v.  Code that fills a table skips null.
Receive(frames, v) ==
  LET n == Len(frames)
      f == frames[n]
  IN  /\ stack' = [frames EXCEPT ![n] = [f EXCEPT !.got = Append(f.got, v)]]
      /\ rows' = IF f.does = "string" \/ v = None THEN rows
                 ELSE Append(rows, [does |-> f.does, from |-> f.ref,
                                    index |-> Len(f.got) + 1, to |-> v])

\* The call on top returns v to its caller, or to augmentAst.
Return(v) ==
  /\ issued' = IF v = None THEN issued ELSE issued \cup {<<Top.item, v>>}
  /\ IF Below # <<>>
       THEN Receive(Below, v) /\ UNCHANGED <<phase, built>>
       ELSE /\ stack' = <<>> /\ UNCHANGED rows
            /\ phase' = IF phase = "build" THEN "iterate" ELSE "idle"
            /\ built' = IF phase = "build" /\ v # None THEN built \cup {v} ELSE built

-----------------------------------------------------------------------------
(* getId, getSymbolId, getSignatureId.                                     *)

InString == stack # <<>> /\ Top.does = "string"

\* typeRecursionDepth
Depth == Cardinality({i \in 1 .. Len(stack) - 1 :
                        stack[i].does = "string" /\ stack[i].item \in Type})

\* No string: too deep, not a supported type, or a part that has no number.
IsNull ==
  \/ Top.item \in Type /\ Depth > MaxDepth
  \/ Tag[Top.item] = None
  \/ \E i \in DOMAIN Top.got : Top.got[i] = None /\ <<Top.item, i>> \notin Optional

ReturnNull ==
  /\ InString /\ IsNull
  /\ Return(None)
  /\ UNCHANGED <<ids, state, worklist, shallow, cached>>

\* "We cache the symbol ID to avoid rebuilding long symbol strings."
HasId == Top.item \in Symbol /\ Top.got = <<>> /\ cached[Top.item] # None

ReturnCached ==
  /\ InString /\ HasId
  /\ Return(cached[Top.item])
  /\ UNCHANGED <<ids, state, worklist, shallow, cached>>

\* Mutant: a member whose type cannot be computed is tried again.
Call_Again ==
  /\ stack # <<>>
  /\ Top.does = "string" => ~IsNull /\ ~HasId
  /\ Len(Top.got) < Len(Calls(Top))
  /\ LET x == Calls(Top)[Len(Top.got) + 1]
     IN  IF x = None THEN UNCHANGED <<stack, rows>>
         ELSE stack' = Append(stack, Called(x)) /\ UNCHANGED rows
  /\ UNCHANGED <<ids, state, worklist, shallow, cached, phase, issued, built>>

\* The next call of the code on top; tryGetTypeOfSymbol returns null where the compiler fails.
Call ==
  /\ stack # <<>>
  /\ Top.does = "string" => ~IsNull /\ ~HasId
  /\ Len(Top.got) < Len(Calls(Top))
  /\ LET x == Calls(Top)[Len(Top.got) + 1]
     IN  IF x = None THEN Receive(stack, None)
         ELSE stack' = Append(stack, Called(x)) /\ UNCHANGED rows
  /\ UNCHANGED <<ids, state, worklist, shallow, cached, phase, issued, built>>

HasString == InString /\ ~IsNull /\ ~HasId /\ Len(Top.got) = Len(Parts[Top.item])

String == [tag |-> Tag[Top.item], parts |-> Top.got]

\* Mutant: a symbol is looked up by its $id only.
Found_NoSymbol ==
  LET table == ids[KindOf(Top.item)]
  IN  {n \in 0 .. Len(table) - 1 : Top.item \notin Symbol /\ table[n + 1] = String}

\* Positions of a string in the table of its kind; numbers begin with 0.
Found == LET table == ids[KindOf(Top.item)]
         IN  {n \in 0 .. Len(table) - 1 : table[n + 1] = String}

Entry(id) == [type |-> Top.item, id |-> id]

\* Mutant: the known type keeps the context in which it was found first.
Promote_Never(id) == UNCHANGED <<state, worklist>>

\* Mutant: the promoted type is not put back in the worklist.
Promote_NoPush(id) ==
  IF shallow THEN UNCHANGED <<state, worklist>>
  ELSE /\ state' = IF state[id + 1] \in {"PendingShallow", "DoneShallow"}
                     THEN [state EXCEPT ![id + 1] = "PendingFull"] ELSE state
       /\ UNCHANGED worklist

\* A known type that is asked for in full context is promoted, and extracted
\* again if that has happened already.
Promote(id) ==
  IF shallow THEN UNCHANGED <<state, worklist>>
  ELSE /\ state' = IF state[id + 1] \in {"PendingShallow", "DoneShallow"}
                     THEN [state EXCEPT ![id + 1] = "PendingFull"] ELSE state
       /\ worklist' = IF state[id + 1] = "DoneShallow" THEN Append(worklist, Entry(id))
                      ELSE worklist

Find ==
  /\ HasString
  /\ \E n \in Found :
       /\ IF Top.item \in Type THEN Promote(n) ELSE UNCHANGED <<state, worklist>>
       /\ cached' = IF Top.item \in Symbol
                      THEN [cached EXCEPT ![Top.item] = <<"symbol", n>>] ELSE cached
       /\ Return(<<KindOf(Top.item), n>>)
  /\ UNCHANGED <<ids, shallow>>

\* stringifyType, stringifySignature: recovered from a compiler crash.
Discard ==
  /\ HasString /\ Found = {} /\ Top.item \in Unprintable
  /\ Return(None)
  /\ UNCHANGED <<ids, state, worklist, shallow, cached>>

Pending == IF shallow THEN "PendingShallow" ELSE "PendingFull"

\* A new number.  The number of a symbol is known before its base types are asked for.
Register ==
  /\ HasString /\ Found = {} /\ Top.item \notin Unprintable
  /\ LET k == KindOf(Top.item)
         n == Len(ids[k])
     IN  /\ ids' = [ids EXCEPT ![k] = Append(@, String)]
         /\ IF k = "type" THEN /\ worklist' = Append(worklist, Entry(n))
                               /\ state' = Append(state, Pending)
                          ELSE UNCHANGED <<worklist, state>>
         /\ cached' = IF k = "symbol" THEN [cached EXCEPT ![Top.item] = <<k, n>>] ELSE cached
         /\ stack' = [stack EXCEPT ![Len(stack)] =
                        [does |-> "after", item |-> Top.item, ref |-> <<k, n>>, got |-> <<>>]]
         /\ rows' = IF Top.item \notin Global THEN rows
                    ELSE Append(rows, [does |-> "global", from |-> <<k, n>>, index |-> 0,
                                       to |-> <<k, n>>])
  /\ UNCHANGED <<shallow, phase, issued, built>>

ReturnId ==
  /\ stack # <<>> /\ Top.does = "after" /\ Len(Top.got) = Len(After[Top.item])
  /\ Return(Top.ref)
  /\ UNCHANGED <<ids, state, worklist, shallow, cached>>

-----------------------------------------------------------------------------
(* iterateBuildTypeWorklist.                                               *)

NextEntry == worklist[Len(worklist)]

Pop == worklist' = SubSeq(worklist, 1, Len(worklist) - 1)

Iterating == phase = "iterate" /\ stack = <<>>

\* isExpansiveTypeReference: every type, since main.ts sets restrictedExpansion unless
\* the environment has SEMMLE_TYPESCRIPT_NO_EXPANSION.
Expansive == Type

StaysShallow(e) == state[e.id + 1] = "PendingShallow" /\ e.type \notin AlwaysSafe

LeaveShallow ==
  /\ Iterating /\ worklist # <<>> /\ StaysShallow(NextEntry)
  /\ Pop /\ state' = [state EXCEPT ![NextEntry.id + 1] = "DoneShallow"]
  /\ UNCHANGED <<ids, shallow, cached, rows, stack, phase, issued, built>>

\* Mutant: the members of an expansive type are found in full context.
Extract_Full ==
  /\ Iterating /\ worklist # <<>> /\ ~StaysShallow(NextEntry)
  /\ Pop /\ state' = [state EXCEPT ![NextEntry.id + 1] = "DoneFull"]
  /\ shallow' = IF NextEntry.type \in Alias THEN shallow
                ELSE state[NextEntry.id + 1] = "PendingShallow"
  /\ stack' = <<[does |-> "members", item |-> NextEntry.type,
                 ref |-> <<"type", NextEntry.id>>, got |-> <<>>]>>
  /\ UNCHANGED <<ids, cached, rows, phase, issued, built>>

\* What an alias stands for is asked for in the context of the entry before.
Extract ==
  /\ Iterating /\ worklist # <<>> /\ ~StaysShallow(NextEntry)
  /\ Pop /\ state' = [state EXCEPT ![NextEntry.id + 1] = "DoneFull"]
  /\ shallow' = IF NextEntry.type \in Alias THEN shallow
                ELSE state[NextEntry.id + 1] = "PendingShallow" \/ NextEntry.type \in Expansive
  /\ stack' = <<[does |-> "members", item |-> NextEntry.type, ref |-> <<"type", NextEntry.id>>,
                 got |-> <<>>]>>
  /\ UNCHANGED <<ids, cached, rows, phase, issued, built>>

\* Mutant: extraction stops at the first member that has no number.
Extracted_AtNull ==
  /\ stack # <<>> /\ Top.does = "members"
  /\ Len(Top.got) = Len(Members[Top.item]) \/ \E i \in DOMAIN Top.got : Top.got[i] = None
  /\ stack' = Below
  /\ UNCHANGED <<ids, state, worklist, shallow, cached, rows, phase, issued, built>>

Extracted ==
  /\ stack # <<>> /\ Top.does = "members" /\ Len(Top.got) = Len(Members[Top.item])
  /\ stack' = Below
  /\ UNCHANGED <<ids, state, worklist, shallow, cached, rows, phase, issued, built>>

Iterated ==
  /\ Iterating /\ worklist = <<>>
  /\ shallow' = FALSE /\ phase' = "idle"
  /\ UNCHANGED <<ids, state, worklist, cached, rows, stack, issued, built>>

-----------------------------------------------------------------------------
(* augmentAst, for one node after the other; the compiler between files.   *)

buildType(t) ==
  /\ phase = "idle"
  /\ phase' = "build" /\ shallow' = FALSE /\ stack' = <<Called(t)>>
  /\ UNCHANGED <<ids, state, worklist, cached, rows, issued, built>>

\* getSymbolId and getSignatureId: the worklist is left for the next buildType.
getOtherId(x) ==
  /\ phase = "idle"
  /\ phase' = "ask" /\ stack' = <<Called(x)>>
  /\ UNCHANGED <<ids, state, worklist, shallow, cached, rows, issued, built>>

\* releaseProgram and setProgram: another compiler, with objects of its own.
setProgram ==
  /\ phase = "idle"
  /\ cached' = [y \in Symbol |-> None]
  /\ UNCHANGED <<ids, state, worklist, shallow, rows, stack, phase, issued, built>>

Step ==
  \/ ReturnNull \/ ReturnCached \/ Call \/ Find \/ Discard \/ Register \/ ReturnId
  \/ LeaveShallow \/ Extract \/ Extracted \/ Iterated

Next ==
  \/ \E t \in AstType : buildType(t)
  \/ \E x \in AstSymbol \cup AstSignature : getOtherId(x)
  \/ setProgram
  \/ Step

Spec == Init /\ [][Next]_vars

\* The code of a call runs until it returns.
FairSpec == Spec /\ WF_vars(Step)

-----------------------------------------------------------------------------
(* Properties.                                                             *)

StringOf(v) == ids[v[1]][v[2] + 1]

\* A string has one number, however deep the calls were nested in which its parts
\* got theirs ("Canonicalizing types.", type_table.ts:279); whoever asks again, with
\* an object of another compiler or inside the call for the same symbol, is told the
\* same number; and the string behind a number is that of the item, over numbers
\* that its parts were given.
IdsAreCanonical ==
  /\ \A k \in Kind : \A m, n \in DOMAIN ids[k] : ids[k][m] = ids[k][n] => m = n
  /\ \A p, q \in issued : p[1] = q[1] /\ p[1] \in Firm => p[2] = q[2]
  /\ \A p \in issued :
       /\ p[2][2] < Len(ids[p[2][1]])
       /\ LET s == StringOf(p[2])
          IN  /\ s.tag = Tag[p[1]] /\ Len(s.parts) = Len(Parts[p[1]])
              /\ \A i \in DOMAIN s.parts :
                   s.parts[i] # None => <<Parts[p[1]][i], s.parts[i]>> \in issued

IsPending(n) == state[n + 1] \in {"PendingShallow", "PendingFull"}

\* A type is pending just when it is in the worklist, and there once, although it may be
\* promoted while it waits, and come back after it was extracted as a shallow type
\* ("put it back in the worklist if necessary", type_table.ts:456-457).
PendingIsQueued ==
  /\ \A i \in DOMAIN worklist : worklist[i].id + 1 \in DOMAIN state
  /\ \A i \in DOMAIN worklist : IsPending(worklist[i].id)
  /\ \A n \in DOMAIN state : IsPending(n - 1) => \E i \in DOMAIN worklist : worklist[i].id = n - 1
  /\ \A i, j \in DOMAIN worklist : worklist[i].id = worklist[j].id => i = j

InExtraction(v) == stack # <<>> /\ stack[1].does = "members" /\ stack[1].ref = v

\* A type that counts as fully extracted has each member that has a number in the tables,
\* once, whatever was found while its members were.
MembersAreComplete ==
  \A p \in issued :
    p[1] \in Type /\ state[p[2][2] + 1] = "DoneFull" /\ ~InExtraction(p[2]) =>
      \A i \in DOMAIN Members[p[1]] :
        LET made == {n \in DOMAIN rows : /\ rows[n].does = "members" /\ rows[n].from = p[2]
                                         /\ rows[n].index = i}
            m == Members[p[1]][i]
        IN  \A q \in issued : q[1] = m =>
              /\ Cardinality(made) = 1
              /\ m \in Firm => \A n \in made : rows[n].to = q[2]

\* What follows from S by steps of next.
Closure(S, next) ==
  LET reach[n \in Nat] ==
        IF n = 0 THEN S
        ELSE LET before == reach[n - 1] IN before \cup UNION {next[x] : x \in before}
  IN  reach[Cardinality(DOMAIN next)]

Ran(s) == {s[i] : i \in DOMAIN s} \ {None}

Numbers == UNION {{k} \X (0 .. Len(ids[k]) - 1) : k \in Kind}

PartsOfNumber == [v \in Numbers |-> Ran(StringOf(v).parts)]

\* The type of a syntax node, and every type whose number is in its string, at any depth, is
\* fully extracted when buildType has returned, even if it was met in shallow context before
\* ("Full context: any type that is the type of an AST node", type_table.ts:196).
BuiltIsFull ==
  phase = "idle" =>
    \A v \in Closure(built, PartsOfNumber) : v[1] = "type" => state[v[2] + 1] = "DoneFull"

Extracts(S) == [x \in Item |-> Ran(Parts[x]) \cup Ran(After[x]) \cup
                              (IF x \in S THEN Ran(Members[x]) ELSE {})]

\* What may be found in full context, and what in shallow context from there.
FullContext == Closure(AstType \cup AstSymbol \cup AstSignature,
                       Extracts((Type \ Expansive) \cup Alias))

ShallowContext == Closure(FullContext \cup UNION {Ran(Members[t]) : t \in FullContext \cap Type},
                          Extracts(AlwaysSafe))

\* From an expansive type only one reference is followed ("without following any type
\* references after that", type_table.ts:199): the types behind it get no number.
ExpansionIsCut == \A p \in issued : p[1] \in ShallowContext

\* Every call from augmentAst returns: the worklist grows while it is emptied, and
\* strings are asked for inside strings.
CallReturns == phase # "idle" ~> phase = "idle"

\* One object per type: objects with one number have the same members (hypothesis of proofs).
OneTypePerNumber ==
  \A p, q \in issued :
    p[2] = q[2] /\ {p[1], q[1]} \subseteq Type =>
      Members[p[1]] = Members[q[1]] /\ (p[1] \in Alias <=> q[1] \in Alias)

\* What the compiler cannot print does not get a number by another object (hypothesis of proofs).
UnprintableHasNoNumber == \A p \in issued : p[1] \notin Unprintable

\* What is extracted stays extracted, and a type in full context is never shallow
\* again (the transitions of TypeExtractionState, type_table.ts:219-243).
StatesAdvance ==
  [][\A n \in DOMAIN state :
       /\ n \in DOMAIN state'
       /\ <<state[n], state'[n]>> \in
            {<<"PendingShallow", "DoneShallow">>, <<"PendingShallow", "PendingFull">>,
             <<"PendingShallow", "DoneFull">>, <<"DoneShallow", "PendingFull">>,
             <<"PendingFull", "DoneFull">>} \cup {<<s, s>> : s \in TypeExtractionState}]_vars
=============================================================================
