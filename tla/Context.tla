------------------------------ MODULE Context ------------------------------
(***************************************************************************)
(* The extraction context of the C# extractor: one per trap file, it hands *)
(* out labels for program entities, writes their definitions and runs      *)
(* their population.  Everything happens on one thread, but re-entrantly:  *)
(* constructing an entity, writing its id and populating it all create     *)
(* further entities.  The call stack is explicit here, one frame for each  *)
(* entity being created or queued action being run, so that every nesting  *)
(* the program graph allows is a behaviour.                                *)
(*                                                                         *)
(* The program graph is data: Uses[e][s] are the entities that e's code of *)
(* section s creates, in any order.                                        *)
(***************************************************************************)
EXTENDS Naturals, SequencesExt

CONSTANTS
  Entity,           \* what factories are asked for: symbols, locations, files
  NoEntity,         \* "none"
  Behaviour,        \* [Entity -> TrapStackBehaviour]
  NeedsPopulation,  \* entities that this trap file describes
  SecondCache,      \* entities made by CreateEntity2 instead of CreateNonNullEntity
  Uses,             \* [Entity -> [Section -> SUBSET Entity]]
  ErrorLocation,    \* entities created to report an exception
  Members,          \* sequence: the entities that each visit of the task creates
  Declarations,     \* the visits that Try surrounds: the nodes of a compilation unit,
                    \* but not its file and comment lines (in an assembly it surrounds none)
  Comments,         \* entities that ExtractComments creates
  Faulty,           \* <<e, s>>: e's code of section s may throw
  MaxDepth          \* maxRecursiveDepth, 150 in the code

\* The code of an entity that may create others.  "location" is the location in
\* its duplication guard, "later" the part that Populate defers.
Section == {"new", "id", "location", "populate", "later"}

TrapStackBehaviour == {"NoLabel", "PushesLabel", "NeedsLabel", "OptionalLabel"}

ASSUME ContextAssumption ==
  /\ NoEntity \notin Entity
  /\ Behaviour \in [Entity -> TrapStackBehaviour]
  /\ NeedsPopulation \subseteq Entity /\ SecondCache \subseteq Entity
  /\ ErrorLocation \subseteq Entity /\ Comments \subseteq Entity
  /\ Uses \in [Entity -> [Section -> SUBSET Entity]]
  /\ Members \in Seq(SUBSET Entity) /\ Declarations \subseteq DOMAIN Members
  /\ Faulty \subseteq (Entity \X Section) \cup {<<NoEntity, "member">>, <<NoEntity, "comments">>}
  /\ MaxDepth \in Nat \ {0}

VARIABLES
  fromSource,       \* a source file with duplication guards, or an assembly without
  phase,            \* where the task that owns the context is
  visited,          \* number of members visited
  frames,           \* the call stack
  raised,           \* an exception is looking for its handler
  cache,            \* label of the entity in objectEntityCache or entityLabelCache, or 0
  nextLabel,        \* IdCounter of the trap writer
  writingLabel,     \* WritingLabel
  tagStack,         \* entities whose duplication guard is active
  depth,            \* currentRecursiveDepth
  populateQueue,    \* deferred actions
  definitions,      \* how often a label was defined for the entity (history)
  populations,      \* how often the entity was populated (history)
  home,             \* tagStack when the entity was cached (history)
  thrown            \* an exception has been thrown (history)

trapFile == <<definitions, populations>>
task     == <<fromSource, phase, visited>>
vars     == <<fromSource, phase, visited, frames, raised, cache, nextLabel, writingLabel, tagStack,
              depth, populateQueue, definitions, populations, home, thrown>>

\* "member", "comments": code of the task.  "cached", "defined": about to call
\* DefineLabel, Populate.  "complain", "report": creating the location of an error.
Where == Section \cup {"member", "comments", "cached", "defined", "complain", "report"}

Frame ==
  [at: Where, of: Entity \cup {NoEntity}, label: Nat,
   left: SUBSET Entity,      \* what the code at this place still creates
   defers: BOOLEAN,          \* Populate still defers its "later" part
   scoped: BOOLEAN,          \* the frame holds a StackGuard
   keyed: BOOLEAN]           \* the frame holds a duplication guard

\* guard is the duplication guard in which to run the action.
Action == [do: {"define", "populate", "perform", "later"}, of: Entity, label: Nat,
           guard: Entity \cup {NoEntity}]

TypeOK ==
  /\ fromSource \in BOOLEAN
  /\ phase \in {"extract", "populate", "comments", "populateRest", "done", "failed"}
  /\ visited \in 0 .. Len(Members)
  /\ frames \in Seq(Frame)
  /\ raised \in BOOLEAN /\ writingLabel \in BOOLEAN
  /\ cache \in [Entity -> Nat] /\ nextLabel \in Nat
  /\ tagStack \in Seq(Entity)
  /\ depth \in 0 .. MaxDepth
  /\ populateQueue \in Seq(Action)
  /\ definitions \in [Entity -> Nat] /\ populations \in [Entity -> Nat]
  /\ home \in [Entity -> Seq(Entity)]
  /\ thrown \in BOOLEAN

Init ==
  /\ fromSource \in BOOLEAN
  /\ phase = "extract" /\ visited = 0
  /\ frames = <<>> /\ raised = FALSE
  /\ cache = [e \in Entity |-> 0] /\ nextLabel = 1
  /\ writingLabel = FALSE /\ tagStack = <<>> /\ depth = 0 /\ populateQueue = <<>>
  /\ definitions = [e \in Entity |-> 0] /\ populations = [e \in Entity |-> 0]
  /\ home = [e \in Entity |-> <<>>]
  /\ thrown = FALSE

-----------------------------------------------------------------------------
(* The call stack.                                                         *)

Top == Last(frames)

Running == frames # <<>> /\ ~raised

\* A sequence with its last element replaced.
WithTop(s, f) == [s EXCEPT ![Len(s)] = f]

Goto(place, todo) == frames' = WithTop(frames, [Top EXCEPT !.at = place, !.left = todo])

Call(place, e, todo) ==
  [at |-> place, of |-> e, label |-> 0, left |-> todo, defers |-> FALSE,
   scoped |-> FALSE, keyed |-> FALSE]

\* Mutant: an exception passes ExitScope by.
Leave_KeepsScope ==
  /\ frames' = Front(frames)
  /\ depth' = IF Top.scoped /\ ~raised THEN depth - 1 ELSE depth
  /\ tagStack' = IF Top.keyed THEN Front(tagStack) ELSE tagStack

\* Leaving a frame, normally or not, disposes of what it holds: the
\* StackGuard (using) and the duplication guard (finally).
Leave ==
  /\ frames' = Front(frames)
  /\ depth' = IF Top.scoped THEN depth - 1 ELSE depth
  /\ tagStack' = IF Top.keyed THEN Front(tagStack) ELSE tagStack

\* Mutant: the deferred action loses its guard.
Guarded_NoKey(do, e, label) == [do |-> do, of |-> e, label |-> label, guard |-> NoEntity]

\* PopulateLater wraps the action in the guard that is active now.
Guarded(do, e, label) ==
  [do |-> do, of |-> e, label |-> label,
   guard |-> IF tagStack = <<>> THEN NoEntity ELSE Last(tagStack)]

PopulateLater(do, e, label) ==
  populateQueue' = Append(populateQueue, Guarded(do, e, label))

-----------------------------------------------------------------------------
(* CreateNonNullEntity and CreateEntity2.                                  *)

Created(e) == WithTop(frames, [Top EXCEPT !.left = @ \ {e}])

\* Mutant: only an entity whose label has been written counts.
IsHit_Defined(e) == e \notin SecondCache /\ definitions[e] # 0

\* A hit in objectEntityCache returns at once; CreateEntity2 enters a scope and
\* calls the constructor even on a hit.
IsHit(e) == e \notin SecondCache /\ cache[e] # 0

CreateHit(e) ==
  /\ Running /\ e \in Top.left
  /\ IsHit(e)
  /\ frames' = Created(e)
  /\ UNCHANGED <<task, raised, cache, nextLabel, writingLabel, tagStack, depth,
                 populateQueue, trapFile, home, thrown>>

\* EnterScope throws.
CreateTooDeep(e) ==
  /\ Running /\ e \in Top.left
  /\ ~IsHit(e)
  /\ depth >= MaxDepth
  /\ frames' = Created(e)
  /\ raised' = TRUE /\ thrown' = TRUE
  /\ UNCHANGED <<task, cache, nextLabel, writingLabel, tagStack, depth,
                 populateQueue, trapFile, home>>

\* CreateNonNullEntity takes the label before it calls the constructor.
CreateNew(e) ==
  /\ Running /\ e \in Top.left
  /\ ~IsHit(e)
  /\ depth < MaxDepth
  /\ depth' = depth + 1
  /\ IF e \in SecondCache
       THEN /\ frames' = Append(Created(e), [Call("new", e, Uses[e]["new"]) EXCEPT !.scoped = TRUE])
            /\ UNCHANGED nextLabel
       ELSE /\ frames' = Append(Created(e), [Call("new", e, Uses[e]["new"])
                                               EXCEPT !.scoped = TRUE, !.label = nextLabel])
            /\ nextLabel' = nextLabel + 1
  /\ UNCHANGED <<task, raised, cache, writingLabel, tagStack, populateQueue, trapFile, home, thrown>>

\* The constructor has returned and CreateEntity2 knows the entity already.
ConstructKnown ==
  /\ Running /\ Top.at = "new" /\ Top.left = {}
  /\ Top.of \in SecondCache /\ cache[Top.of] # 0
  /\ Leave
  /\ UNCHANGED <<task, raised, cache, nextLabel, writingLabel, populateQueue, trapFile, home, thrown>>

\* The constructor has returned: the entity enters the cache, whatever the
\* cache has for it by now when it is objectEntityCache.
Construct ==
  /\ Running /\ Top.at = "new" /\ Top.left = {}
  /\ Top.of \notin SecondCache \/ cache[Top.of] = 0
  /\ home' = [home EXCEPT ![Top.of] = tagStack]
  /\ IF Top.of \in SecondCache
       THEN /\ cache' = [cache EXCEPT ![Top.of] = nextLabel]
            /\ frames' = WithTop(frames, [Top EXCEPT !.at = "cached", !.label = nextLabel])
            /\ nextLabel' = nextLabel + 1
       ELSE /\ cache' = [cache EXCEPT ![Top.of] = Top.label]
            /\ Goto("cached", {})
            /\ UNCHANGED nextLabel
  /\ UNCHANGED <<task, raised, writingLabel, tagStack, depth, populateQueue, trapFile, thrown>>

-----------------------------------------------------------------------------
(* DefineLabel.                                                            *)

\* Mutant: WritingLabel is not looked at.
BeginLabel_Nested ==
  /\ Running /\ Top.at = "cached"
  /\ writingLabel' = TRUE
  /\ Goto("id", Uses[Top.of]["id"])
  /\ UNCHANGED <<task, raised, cache, nextLabel, tagStack, depth, populateQueue, trapFile, home, thrown>>

BeginLabel ==
  /\ Running /\ Top.at = "cached"
  /\ ~writingLabel
  /\ writingLabel' = TRUE
  /\ Goto("id", Uses[Top.of]["id"])
  /\ UNCHANGED <<task, raised, cache, nextLabel, tagStack, depth, populateQueue, trapFile, home, thrown>>

\* No label is defined while a label is written.
DefineLabelLater ==
  /\ Running /\ Top.at = "cached"
  /\ writingLabel
  /\ PopulateLater("define", Top.of, Top.label)
  /\ Goto("defined", {})
  /\ UNCHANGED <<task, raised, cache, nextLabel, writingLabel, tagStack, depth, trapFile, home, thrown>>

\* Mutant: WritingLabel is reset at the end of the block, not in a finally.
EndLabel_NoFinally ==
  /\ frames # <<>> /\ Top.at = "id"
  /\ raised \/ Top.left = {}
  /\ raised' = FALSE
  /\ writingLabel' = raised
  /\ definitions' = [definitions EXCEPT ![Top.of] = @ + 1]
  /\ IF Top.scoped
       THEN Goto("defined", {}) /\ UNCHANGED <<depth, tagStack>>
       ELSE Leave
  /\ UNCHANGED <<task, cache, nextLabel, populateQueue, populations, home, thrown>>

\* After its label an entity that is being created is populated; a deferred
\* definition ends here.  An exception in WriteQuotedId is caught on the spot.
EndLabel ==
  /\ frames # <<>> /\ Top.at = "id"
  /\ raised \/ Top.left = {}
  /\ raised' = FALSE
  /\ writingLabel' = FALSE
  /\ definitions' = [definitions EXCEPT ![Top.of] = @ + 1]
  /\ IF Top.scoped
       THEN Goto("defined", {}) /\ UNCHANGED <<depth, tagStack>>
       ELSE Leave
  /\ UNCHANGED <<task, cache, nextLabel, populateQueue, populations, home, thrown>>

-----------------------------------------------------------------------------
(* Populate.                                                               *)

\* Only a new entity is asked whether it needs population: what is deferred does.
PopulateNot ==
  /\ Running /\ Top.at = "defined"
  /\ Top.of \notin NeedsPopulation
  /\ Leave
  /\ UNCHANGED <<task, raised, cache, nextLabel, writingLabel, populateQueue, trapFile, home, thrown>>

\* No tuples are written while a label is written.
PopulateAfterLabel ==
  /\ Running /\ Top.at = "defined"
  /\ Top.of \in NeedsPopulation
  /\ writingLabel
  /\ PopulateLater("populate", Top.of, Top.label)
  /\ Leave
  /\ UNCHANGED <<task, raised, cache, nextLabel, writingLabel, trapFile, home, thrown>>

\* Mutant: a guard may start inside another.
MustWait_NoLabelOnly(e) == Behaviour[e] = "NoLabel" /\ tagStack # <<>>

\* What must not be extracted inside .push and .pop waits for its own turn.
MustWait(e) == Behaviour[e] \in {"NoLabel", "PushesLabel"} /\ tagStack # <<>>

\* Mutant: deferral by PopulateLater, which comes back with the same guard.
Perform_Guarded(e, label) == Guarded("populate", e, label)

\* The raw action is queued: it has no use for the guard that is active.
Perform(e, label) == [do |-> "perform", of |-> e, label |-> label, guard |-> NoEntity]

PopulateDeferred ==
  /\ Running /\ Top.at = "defined"
  /\ Top.of \in NeedsPopulation /\ ~writingLabel
  /\ MustWait(Top.of)
  /\ populateQueue' = Append(populateQueue, Perform(Top.of, Top.label))
  /\ Leave
  /\ UNCHANGED <<task, raised, cache, nextLabel, writingLabel, trapFile, home, thrown>>

\* Entering the code that populates e: a guard starts with its location.
Begin(e) ==
  IF Behaviour[e] = "PushesLabel"
    THEN /\ Goto("location", Uses[e]["location"])
         /\ UNCHANGED populations
    ELSE /\ frames' = WithTop(frames, [Top EXCEPT !.at = "populate", !.left = Uses[e]["populate"],
                                                  !.defers = Uses[e]["later"] # {}])
         /\ populations' = [populations EXCEPT ![e] = @ + 1]

\* NeedsLabel outside any guard is an extraction error, and populated all the same.
Unguarded(e) == Behaviour[e] = "NeedsLabel" /\ tagStack = <<>>

PopulateNow ==
  /\ Running /\ Top.at = "defined"
  /\ Top.of \in NeedsPopulation /\ ~writingLabel
  /\ ~MustWait(Top.of)
  /\ IF Unguarded(Top.of)
       THEN Goto("complain", ErrorLocation) /\ UNCHANGED populations
       ELSE Begin(Top.of)
  /\ UNCHANGED <<task, raised, cache, nextLabel, writingLabel, tagStack, depth, populateQueue,
                 definitions, home, thrown>>

Complained ==
  /\ Running /\ Top.at = "complain" /\ Top.left = {}
  /\ Begin(Top.of)
  /\ UNCHANGED <<task, raised, cache, nextLabel, writingLabel, tagStack, depth, populateQueue,
                 definitions, home, thrown>>

\* WithDuplicationGuard; it does nothing for an assembly.
PushGuard ==
  /\ Running /\ Top.at = "location" /\ Top.left = {}
  /\ frames' = WithTop(frames, [Top EXCEPT !.at = "populate", !.left = Uses[Top.of]["populate"],
                                           !.defers = Uses[Top.of]["later"] # {},
                                           !.keyed = fromSource])
  /\ tagStack' = IF fromSource THEN Append(tagStack, Top.of) ELSE tagStack
  /\ populations' = [populations EXCEPT ![Top.of] = @ + 1]
  /\ UNCHANGED <<task, raised, cache, nextLabel, writingLabel, depth, populateQueue,
                 definitions, home, thrown>>

\* Somewhere in Populate the extraction of a body is deferred.
DeferPart ==
  /\ Running /\ Top.at = "populate" /\ Top.defers
  /\ PopulateLater("later", Top.of, Top.label)
  /\ frames' = WithTop(frames, [Top EXCEPT !.defers = FALSE])
  /\ UNCHANGED <<task, raised, cache, nextLabel, writingLabel, tagStack, depth, trapFile, home, thrown>>

Return ==
  /\ Running /\ Top.at \in {"populate", "later", "report", "member", "comments"}
  /\ Top.left = {} /\ ~Top.defers
  /\ Leave
  /\ UNCHANGED <<task, raised, cache, nextLabel, writingLabel, populateQueue, trapFile, home, thrown>>

-----------------------------------------------------------------------------
(* Exceptions.                                                             *)

Throw ==
  /\ Running /\ <<Top.of, Top.at>> \in Faulty
  /\ raised' = TRUE /\ thrown' = TRUE
  /\ UNCHANGED <<task, frames, cache, nextLabel, writingLabel, tagStack, depth,
                 populateQueue, trapFile, home>>

\* Try: around Populate without a guard of its own, around declarations and
\* around ExtractComments.
Tried(f) ==
  \/ f.at = "populate" /\ Behaviour[f.of] # "PushesLabel"
  \/ f.at = "member" /\ fromSource /\ visited \in Declarations
  \/ f.at = "comments"

\* The handler creates the location of the message outside the try.
Catch ==
  /\ raised /\ frames # <<>> /\ Tried(Top)
  /\ raised' = FALSE
  /\ frames' = WithTop(frames, [Top EXCEPT !.at = "report", !.left = ErrorLocation, !.defers = FALSE])
  /\ UNCHANGED <<task, cache, nextLabel, writingLabel, tagStack, depth,
                 populateQueue, trapFile, home, thrown>>

\* The handler of PopulateAll, called from the task itself.
HandlerOfPopulateAll == Call("report", NoEntity, ErrorLocation)

IsHandler(f) == f.at = "report" /\ f.of = NoEntity /\ phase \in {"populate", "populateRest"}

Propagate ==
  /\ raised /\ frames # <<>>
  /\ ~Tried(Top) /\ Top.at # "id" /\ ~IsHandler(Top)
  /\ Leave
  /\ UNCHANGED <<task, raised, cache, nextLabel, writingLabel, populateQueue, trapFile, home, thrown>>

\* Mutant: the handler is outside the loop.
CatchInPopulateAll_Stops ==
  /\ raised /\ frames = <<>> /\ phase \in {"populate", "populateRest"}
  /\ raised' = FALSE
  /\ frames' = <<HandlerOfPopulateAll>>
  /\ populateQueue' = <<>>
  /\ UNCHANGED <<task, cache, nextLabel, writingLabel, tagStack, depth, trapFile, home, thrown>>

CatchInPopulateAll ==
  /\ raised /\ frames = <<>> /\ phase \in {"populate", "populateRest"}
  /\ raised' = FALSE
  /\ frames' = <<HandlerOfPopulateAll>>
  /\ UNCHANGED <<task, cache, nextLabel, writingLabel, tagStack, depth,
                 populateQueue, trapFile, home, thrown>>

\* DoExtractTree and DoAnalyseAssembly catch what nobody else did; the trap
\* file is closed and published all the same.
Fail ==
  /\ raised
  /\ \/ frames = <<>> /\ phase \in {"extract", "comments"}
     \/ frames # <<>> /\ IsHandler(Top)
  /\ raised' = FALSE
  /\ frames' = <<>>
  /\ phase' = "failed"
  /\ UNCHANGED <<fromSource, visited, cache, nextLabel, writingLabel, tagStack, depth,
                 populateQueue, trapFile, home, thrown>>

-----------------------------------------------------------------------------
(* DoExtractTree and DoAnalyseAssembly.                                    *)

Idle == frames = <<>> /\ ~raised

VisitMember ==
  /\ Idle /\ phase = "extract" /\ visited < Len(Members)
  /\ visited' = visited + 1
  /\ frames' = <<Call("member", NoEntity, Members[visited + 1])>>
  /\ UNCHANGED <<fromSource, phase, raised, cache, nextLabel, writingLabel, tagStack, depth,
                 populateQueue, trapFile, home, thrown>>

MembersVisited ==
  /\ Idle /\ phase = "extract" /\ visited = Len(Members)
  /\ phase' = "populate"
  /\ UNCHANGED <<fromSource, visited, frames, raised, cache, nextLabel, writingLabel, tagStack,
                 depth, populateQueue, trapFile, home, thrown>>

\* The first frame of a queued action.
Start(a) ==
  CASE a.do = "define"   -> [Call("cached", a.of, {}) EXCEPT !.label = a.label]
    [] a.do = "populate" -> [Call("defined", a.of, {}) EXCEPT !.label = a.label]
    [] a.do = "later"    -> Call("later", a.of, Uses[a.of]["later"])
    [] a.do = "perform"  ->
         IF Behaviour[a.of] = "PushesLabel"
           THEN Call("location", a.of, Uses[a.of]["location"])
           ELSE [Call("populate", a.of, Uses[a.of]["populate"])
                   EXCEPT !.defers = Uses[a.of]["later"] # {}]

\* One round of PopulateAll.
PopulateNext ==
  /\ Idle /\ phase \in {"populate", "populateRest"} /\ populateQueue # <<>>
  /\ LET a == Head(populateQueue)
         keyed == a.guard # NoEntity /\ fromSource
     IN  /\ frames' = <<[Start(a) EXCEPT !.keyed = keyed]>>
         /\ tagStack' = IF keyed THEN Append(tagStack, a.guard) ELSE tagStack
         /\ populations' = IF a.do = "perform" /\ Behaviour[a.of] # "PushesLabel"
                             THEN [populations EXCEPT ![a.of] = @ + 1]
                             ELSE populations
  /\ populateQueue' = Tail(populateQueue)
  /\ UNCHANGED <<task, raised, cache, nextLabel, writingLabel, depth, definitions, home, thrown>>

\* Comments are extracted, and what they deferred populated, for source files.
Populated ==
  /\ Idle /\ phase = "populate" /\ populateQueue = <<>>
  /\ IF fromSource
       THEN phase' = "comments" /\ frames' = <<Call("comments", NoEntity, Comments)>>
       ELSE phase' = "done" /\ UNCHANGED frames
  /\ UNCHANGED <<fromSource, visited, raised, cache, nextLabel, writingLabel, tagStack, depth,
                 populateQueue, trapFile, home, thrown>>

\* Mutant: PopulateAll is not called again after the comments.
CommentsExtracted_Done ==
  /\ Idle /\ phase = "comments"
  /\ phase' = "done"
  /\ UNCHANGED <<fromSource, visited, frames, raised, cache, nextLabel, writingLabel, tagStack,
                 depth, populateQueue, trapFile, home, thrown>>

CommentsExtracted ==
  /\ Idle /\ phase = "comments"
  /\ phase' = "populateRest"
  /\ UNCHANGED <<fromSource, visited, frames, raised, cache, nextLabel, writingLabel, tagStack,
                 depth, populateQueue, trapFile, home, thrown>>

AllPopulated ==
  /\ Idle /\ phase = "populateRest" /\ populateQueue = <<>>
  /\ phase' = "done"
  /\ UNCHANGED <<fromSource, visited, frames, raised, cache, nextLabel, writingLabel, tagStack,
                 depth, populateQueue, trapFile, home, thrown>>

-----------------------------------------------------------------------------

Next ==
  \/ \E e \in Entity : CreateHit(e)
  \/ \E e \in Entity : CreateTooDeep(e)
  \/ \E e \in Entity : CreateNew(e)
  \/ ConstructKnown \/ Construct
  \/ BeginLabel \/ DefineLabelLater \/ EndLabel
  \/ PopulateNot \/ PopulateAfterLabel \/ PopulateDeferred \/ PopulateNow
  \/ Complained \/ PushGuard \/ DeferPart \/ Return
  \/ Throw \/ Catch \/ Propagate \/ CatchInPopulateAll \/ Fail
  \/ VisitMember \/ MembersVisited
  \/ PopulateNext \/ Populated \/ CommentsExtracted \/ AllPopulated

Spec == Init /\ [][Next]_vars

\* The task runs on a thread of the pool until it returns.
FairSpec == Spec /\ WF_vars(Next)

-----------------------------------------------------------------------------
(* Properties.                                                             *)

\* Between two declarations, queued actions or phases nothing is left over: the
\* nesting depth is back to 0, no duplication guard is active and no label is
\* being written, however many exceptions passed through the stack.
Balanced ==
  frames = <<>> => depth = 0 /\ tagStack = <<>> /\ ~writingLabel

\* "Is only called when ... the entity has not already been populated"
\* (Entity.cs): no entity is populated, nor its label defined, a second time.
PopulatedOnce ==
  \A e \in Entity : definitions[e] <= 1 /\ populations[e] <= 1

\* While the id of an entity is written, nothing else reaches the trap file: no
\* other definition, no tuple, no .push and no .pop.
InLabel == \E i \in DOMAIN frames : frames[i].at = "id"

NothingWrittenInLabel ==
  [][InLabel /\ InLabel' => UNCHANGED <<trapFile, tagStack>>]_vars

\* An entity that must not be extracted inside .push and .pop, and one that has
\* a guard of its own, starts to be populated outside of any other guard.
NoLabelOutsideGuards ==
  [][\A e \in Entity :
       populations'[e] # populations[e] =>
         /\ Behaviour[e] = "NoLabel" => tagStack' = <<>>
         /\ Behaviour[e] = "PushesLabel" => tagStack' \in {<<>>, <<e>>}]_vars

\* What needs a guard is populated in the guard that was active when it was
\* created, however often its population was put off.
GuardIsKept ==
  [][\A e \in Entity :
       fromSource /\ populations'[e] # populations[e] /\ Behaviour[e] = "NeedsLabel"
         => tagStack' = home[e] /\ tagStack' # <<>>]_vars

\* When the trap file is closed after a regular end, no label is used in it
\* without a definition, even if ids and populations have thrown.
LabelsAreDefined ==
  phase = "done" => \A e \in Entity : cache[e] # 0 => definitions[e] >= 1

\* Nor, if nothing has thrown, an entity without its description.
EverythingIsPopulated ==
  phase = "done" /\ ~thrown =>
    \A e \in NeedsPopulation : cache[e] # 0 => populations[e] >= 1

\* PopulateAll empties its queue although what it runs fills it again, and the
\* task returns.
ExtractionEnds == <>(phase \in {"done", "failed"})

-----------------------------------------------------------------------------
(* The inductive invariant.                                                *)

\* The places where e runs are of an entity; the task has frames of its own.
FramesOfEntities ==
  \A i \in DOMAIN frames :
    frames[i].at \notin {"member", "comments", "report"} => frames[i].of \in Entity

\* Each StackGuard on the stack counts.
Scopes == {i \in DOMAIN frames : frames[i].scoped}

DepthCountsScopes == depth = Cardinality(Scopes)

\* A label is being written by one frame, and above it entities are only
\* constructed: their labels and their population are put off.
LabelOnTop ==
  /\ \A i \in DOMAIN frames : frames[i].at = "id" =>
       /\ writingLabel
       /\ \A j \in DOMAIN frames : j > i =>
            frames[j].at \in {"new", "cached", "defined"} /\ ~frames[j].keyed
  /\ writingLabel => InLabel

\* There is at most one guard, it belongs to one frame, and only a frame
\* without a guard below it is on the way to push one.
OneGuard ==
  /\ Len(tagStack) <= 1
  /\ \A i \in DOMAIN frames : frames[i].keyed => tagStack # <<>>
  /\ tagStack # <<>> => \E i \in DOMAIN frames : frames[i].keyed
  /\ \A i, j \in DOMAIN frames : frames[i].keyed /\ frames[j].keyed => i = j
  /\ \A i \in DOMAIN frames : frames[i].at = "location" =>
       /\ Behaviour[frames[i].of] = "PushesLabel"
       /\ \A j \in DOMAIN frames : j <= i => ~frames[j].keyed
  /\ \A i \in DOMAIN frames : frames[i].at = "complain" =>
       Behaviour[frames[i].of] = "NeedsLabel"

\* What had to wait for the end of a guard is queued without one.
WaitsWithoutGuard ==
  \A i \in DOMAIN populateQueue : populateQueue[i].do = "perform" => populateQueue[i].guard = NoEntity

\* The handler of PopulateAll runs at the bottom of the stack.
HandlerAtBottom ==
  \A i \in DOMAIN frames :
    /\ frames[i].at \in {"member", "comments"} => phase \in {"extract", "comments"}
    /\ IsHandler(frames[i]) => i = 1 /\ ~frames[i].scoped /\ ~frames[i].keyed

FramesInv ==
  /\ FramesOfEntities /\ DepthCountsScopes /\ LabelOnTop /\ OneGuard /\ HandlerAtBottom

ContextInv == TypeOK /\ FramesInv /\ WaitsWithoutGuard

-----------------------------------------------------------------------------
(* What the trap file is owed: an entity that has been cached is on its way *)
(* to one definition and one population, on the stack or in the queue.      *)

\* Labels are defined and populations begun at the top of the stack, where no
\* exception passes; a definition of its own has no label to wait for.
PlacesInv ==
  /\ \A i \in DOMAIN frames :
       /\ frames[i].at = "new" => frames[i].scoped
       /\ frames[i].at \in {"cached", "defined"} =>
            i = Len(frames) /\ ~raised /\ frames[i].left = {}
       /\ frames[i].at = "cached" /\ ~frames[i].scoped => ~writingLabel
  /\ raised => thrown
  /\ phase = "done" => frames = <<>> /\ ~raised /\ populateQueue = <<>>

\* How many elements of a sequence are in a set.
CountIn(s, P) == Cardinality({i \in DOMAIN s : s[i] \in P})

\* The frames and the actions that will define the label of e, or populate e.
Defining(e)   == {f \in Frame : f.of = e /\ f.at \in {"cached", "id"}}
Populating(e) ==
  {f \in Frame : /\ f.of = e
                 /\ \/ f.at \in {"cached", "id"} /\ f.scoped
                    \/ f.at \in {"defined", "complain", "location"}}
ToDefine(e)   == {a \in Action : a.of = e /\ a.do = "define"}
ToPopulate(e) == {a \in Action : a.of = e /\ a.do \in {"populate", "perform"}}

DefinitionsOf(e) ==
  definitions[e] + CountIn(frames, Defining(e)) + CountIn(populateQueue, ToDefine(e))
PopulationsOf(e) ==
  populations[e] + CountIn(frames, Populating(e)) + CountIn(populateQueue, ToPopulate(e))

AtLeastOnce ==
  phase # "failed" =>
    /\ \A e \in Entity : cache[e] # 0 => DefinitionsOf(e) >= 1
    /\ ~thrown => \A e \in NeedsPopulation : cache[e] # 0 => PopulationsOf(e) >= 1

\* No constructor comes back to the entity that it constructs.
ConstructorsDoNotNest ==
  \A i, j \in DOMAIN frames :
    frames[i].at = "new" /\ frames[j].at = "new" /\ frames[i].of = frames[j].of
      => i = j \/ frames[i].of \in SecondCache

AtMostOnce ==
  /\ nextLabel # 0
  /\ \A i \in DOMAIN frames :
       frames[i].at = "new" /\ frames[i].of \notin SecondCache
         => cache[frames[i].of] = 0 /\ frames[i].label # 0
  /\ \A e \in Entity :
       /\ DefinitionsOf(e) <= 1 /\ PopulationsOf(e) <= 1
       /\ cache[e] = 0 => DefinitionsOf(e) = 0 /\ PopulationsOf(e) = 0

\* What needs a guard is created in one.
NeedsLabelInGuard ==
  \A e \in Entity : fromSource /\ cache[e] # 0 /\ Behaviour[e] = "NeedsLabel" => home[e] # <<>>

\* What is on its way to be populated finds the guard it was created in.
GuardOf(a) == IF a.guard = NoEntity THEN <<>> ELSE <<a.guard>>

AtHome ==
  \A e \in Entity : fromSource /\ Behaviour[e] = "NeedsLabel" =>
    /\ \A i \in DOMAIN frames : frames[i] \in Populating(e) =>
         tagStack = home[e] /\ frames[i].at # "complain"
    /\ \A i \in DOMAIN populateQueue : populateQueue[i] \in ToPopulate(e) =>
         populateQueue[i].do = "populate" /\ GuardOf(populateQueue[i]) = home[e]
=============================================================================
