# Verification of the stateful programs of the CodeQL repository

The repository holds the CodeQL libraries and queries (QL, declarative) and the programs that
produce the databases they run on: extractors and autobuilders.  The queries have no state to
model.  This project is about the programs: what they remember between two steps, what runs
concurrently in them, and what happens when a file, a process or a thread lets them down.

## Inventory

### JavaScript extractor (Java), `src/javascript/extractor/src/com/semmle/js/`

| Component | State | Operations | Hard behaviour | What makes it correct |
|---|---|---|---|---|
| `parser/TypeScriptParser` | handle and pipes of a Node.js process, metadata | `parse`, `prepareFiles`, `getOwnFiles`, `openProject`, `closeProject`, `getTypeTable`, `reset`, `killProcess` | the process dies at any point; a request inside a request when it starts | one answer per request, for that request; every call returns |
| `extractor/AutoBuild` | extracted files, included files, pool, exit flags | `run` and the loops below it | worker threads beside the main thread; files that vanish; lists computed twice | each file once, by its best project, in the announced order; right exit status; it ends |
| `extractor/FileExtractor` with `trapcache/*` | cache directory, trap files | `extract`, `extractSnippet`, `extractContents`, `CachingTrapWriter.close`, `trimCacheToSize` | another process trims the cache between a test for an entry and the use of it; a result that cannot be published | every file has its result, or the build fails |
| `extractor/ExtractorState`, `HTMLExtractor` | snippets | `extractSnippet` | registered on worker threads, read by the main thread | snippets known before projects are opened |
| `extractor/Main` | list of files | `run` | a sequential variant of the autobuilder | as above |
| `extractor/ScopeManager`, `CFGExtractor`, `SyntacticContextManager`, `LexicalExtractor`, `LocationManager` | stacks and maps for one tree | tree walks | sequential, data-dependent | balanced scopes, one entry and exit per node |
| `jcorn`, `parser/*Parser` | position in the text | recursive descent | sequential | language conformance |

### TypeScript parser process (Node.js), `src/javascript/extractor/lib/typescript/src/`

| Component | State | Operations | Hard behaviour | What makes it correct |
|---|---|---|---|---|
| `main.ts`, `common.ts` | open project and program, announced files, position, answer parsed ahead, memory flag | one handler per command, `prepareNextFile`, `checkMemoryUsage` | callbacks between commands; restarts of the compiler | answers for the file asked for; types of every answer in the table |
| `type_table.ts` | numbers of types, symbols and signatures, the state of each type, worklist, `$id` of symbols | `buildType`, `getId`, `getSymbolId`, `getSignatureId`, `iterateBuildTypeWorklist`, `setProgram` | re-entrancy: the string of a type needs the numbers of its parts; a worklist that grows while it is emptied; types promoted from shallow to full while they wait; a new compiler | one number per string; worklist exact; members complete; expansion cut off; every call returns |
| `ast_extractor.ts` | positions to scan again, the next one | `augmentAst` | the order of a tree walk against that of the text | each position is scanned again |

### C# extractor, `src/csharp/extractor/`

| Component | State | Operations | Hard behaviour | What makes it correct |
|---|---|---|---|---|
| `Semmle.Extraction/Context` | entity caches, label counter, population queue, scope stack, duplication guard | `CreateEntity`, `PopulateLater`, `PopulateAll`, `Populate`, `WithDuplicationGuard` | re-entrancy: populating creates entities | one label per key, each entity populated once, all before the trap file is closed |
| `Semmle.Extraction/TrapWriter` | temporary file; shared: trap folder, source archive | `Dispose`, `Archive` | several processes finish the same trap file or archive the same source; death in between | no torn file under a final name, no result lost, nothing replaced or, as a comment has it, the last one wins |
| `Semmle.Util/CanonicalPathCache` | a map of paths to canonical paths, of bounded size | `GetCanonicalPath` | several threads, under one lock; re-entrancy: a path needs its parents; eviction of an arbitrary entry | the bound; a path in the map has the answer that would be computed |
| `Semmle.Extraction.CSharp/Extractor`, `Analyser` | task list, error count, exit code; shared: a file per command line that was seen | `Run`, `LogRoslynArgs`, `Analyse*`, `PerformExtraction`, `Dispose` | parallel tasks; several processes with one command line; death after the claim | Ok only if everything is extracted or somebody answers for it; no error uncounted |
| `Semmle.Extraction/CommentProcessing` | two sorted dictionaries, the element stack of the merge | `AddComment`, `AddElement`, `GenerateBindings` | one pass over two sequences; locations that coincide, end together or lie in another file | the elements a comment is bound to are those around it; no line lost |
| `Semmle.Extraction.CIL`, `.Standalone` | metadata handles, assembly cache | tree walks | sequential | - |

### C# autobuilder, `src/csharp/autobuilder/`

Rules that return build scripts, and the combinators of `BuildScript.cs` that run them.  The
state is the exit code so far; the hard part is which rule is tried after which failure.

### How they interact

`AutoBuild` calls `TypeScriptParser` from its main thread only; that talks to `main.ts` over two
pipes, a line per message.  HTML, JavaScript and extern files are jobs of a thread pool and meet
the main thread in `extractedFiles` (main thread only), `ExtractorState.snippets` (a concurrent
map), the virtual source root (files), the trap cache (files) and two flags.

Each compilation of a C# build starts an extractor process.  `Analyser` runs its tasks in
parallel; each has a `Context` and a `TrapWriter` of its own, so tasks of one process, like those
of different processes, meet only in the trap folder, the source archive and the error count.  The
processes also meet in the log folder: the first with a command line leaves a file there, and later
ones return at once.  Within a task
everything is nested calls: `Context` creates entities, whose constructors, ids and populations
create further ones.

`PROJECT.json` lists under "hazards" where each of these can go wrong, with the property that
would show it.

## Modules

| Module | Models | Builds on |
|---|---|---|
| `ParserWrapper` | `TypeScriptParser.java`, `main.ts`, `common.ts`, the pipes | |
| `ParserService` | what callers of the parser rely on (abstract) | |
| `ParserRefinement` | the refinement mapping from one to the other | both |
| `AutoBuild` | `AutoBuild.java`, its pool, `FileExtractor`, the trap cache and snippets | `ParserWrapper` |
| `TypeTable` | `type_table.ts`, as `augmentAst` calls it | |
| `Tokens` | the rescans of `augmentAst` | |
| `Context` | `Context.cs` and the two tasks that drive it | |
| `TrapWriter` | `TrapWriter.cs`, `Analyser`'s tasks, several processes | |
| `Driver` | `Extractor.Run` and `Analyser` around those tasks: claims, counts, exit codes | `TrapWriter` |
| `CommentProcessor` | `CommentProcessing.cs` | |
| `*_proofs` | theorems about the module of that name (`ParserRefinement_proofs` and `AutoBuild_proofs` use those of `ParserWrapper_proofs`, `Driver_proofs` those of `TrapWriter_proofs`) | TLAPS |
| `MC*` | the small instances | |

Operators that end in an underscore and a word (`Throw_Unconsumed`) are mutants: the definition
before or after them with a plausible bug, which the property named in `PROJECT.json` finds.

### ParserWrapper

`pc` is where the caller is in `talkToParserWrapper` ("check": `isAlive`; "write"; "read"), `call`
its request, and `request` what is being talked about, which is the `get-metadata` request while a
process is being started.  Exceptions are outcomes of `Return`; `Throw` contains the one `catch`
there is (`reset`).  Each command of `main.ts` is an action `Handle...`; `PrepareNextFile` is the
callback of a flushed write, which may run before or after the next line is handled;
`checkMemoryUsage` is a choice in the handlers that call it.  `Crash` ends the process at any point
with any of `CrashCodes`, and lines it has not written are lost.  An AST is a record of the file and
the project it was parsed with; the type table is the set of file and project pairs whose types
were recorded.

`ParserService` has one list of announced files and one open project, both of which it may forget
at any time, and calls that are invoked, take effect at most once, and return.  Reading ahead, pipes,
processes and restarts of the compiler are stuttering steps of it.

### AutoBuild

`step` is the program counter of the main thread; `todo` is what is left of the list it iterates
over, and `job` how far the pool is with each file.  `PATH_ORDERING` is the constant `Order`, in which a
file has a `Position`; `Sorted` lists a set of files by it, and `IsNext` says which one a loop over the
set is at.  A file is of one kind, and the files a project names are among those of its program: they
are the root names it is created from (`common.ts:50`, `main.ts:453`).
Conditions of the code that are computed twice (the list that is announced, the list that is
requested, existence of a file) are evaluated twice.  With `Threads = 0` a submitted job runs before
the main thread goes on.  The module contains `ParserWrapper` as it is; `AskParser` is a call and the
main thread waits for the result.  A run ends with `status` 0, 1 or -1 (no code seen).

A job looks its file up in the trap cache ("lookup"), copies the entry ("copy"), or extracts
("extract", "record" for a snippet), appends its tuples to the trap file ("commit"), moves its
temporary file to the cache ("publish", which may silently fail) and sets the flags ("finish").
`TrimCache` is another process that deletes an entry at any time: between "lookup" and "copy" it
makes the job throw, as `FileExtractor` tests for the entry and reads it in two steps.

### TypeTable

The compiler's objects are data: constants say which parts the string of each has, which symbols
follow from it, and which members a type has.  `stack` is the call stack: a frame collects the
numbers of the parts of its item (`does = "string"`), then those of what follows ("after"), or
extracts the members of a type taken from the worklist ("members").  `Call` pushes a frame, `Find` and
`Register` look the finished string up in `ids` and issue its number, and `ReturnNull` and `Discard` end
a call without one.  `augmentAst` is the arbitrary caller: it asks for the type, symbol or signature
of a syntax node, and `buildType` then empties the worklist.  `setProgram` is a new compiler, whose
objects know no numbers while the strings are those of the old one.  By default every type counts as
expansive: the test that would say otherwise is only made when expansion is switched on, and then
throws (`type_table.ts:1204` uses `this` in a nested function).

`built` holds the numbers `buildType` has returned since the start.  `BuiltIsFull` is about numbers: it
follows the strings behind them to their parts, whichever object each number was issued for.

### Tokens

`Collect` is the walk over the tree, children first; `Scan` one round of the loop over the text.
The scanner is external: it is asked for the end of the token at a position, and scanned again it
returns the whole operator, regular expression or piece of a template.

### CommentProcessor

"register" is the phase of `AddElement` and `AddComment` in any order; "merge" the loop of
`GenerateBindings`, with `elementStack`, the block that is being built and the two enumerators.  A
location is a span of offsets with the rank of its file; lines and columns are functions of it.
`AddElement` keeps one of two labels at a location, by the duplication guard keys.

### Context

`frames` is the call stack: one frame per piece of an entity's code that is running ("new" the
constructor, "id", "location", "populate", "later" a deferred body), with the entities it still has
to create.  Which entities a piece of code creates, and in which order, is arbitrary: `Uses` is a
constant and the order a choice.  `raised` is an exception on its way up; `Throw` raises one,
`Propagate` disposes of what a frame holds, and `Catch`, `CatchInPopulateAll` and `Fail` are the
handlers.  `tagStack`, `writingLabel`, `depth` and `populateQueue` are the fields of `Context.cs`.
What matters of the trap file is how often each label was defined and each entity populated.
`fromSource` is chosen at the start: the context of a source tree, or that of an assembly, where
nothing catches the exceptions of a member.  `thrown` is history: it says whether there has been an
exception, which is what excuses an entity that is not populated.

### TrapWriter

`at` is where each task is, from the test for an existing trap file to the last step of `Dispose`;
`temp` its temporary file, `files` the trap folder and `archive` the source archive.  Every test and
every change of the file system is a step of its own: `TryMove` is two, `MoveOrReplace` two, the
comparison of hashes one.  A hash stands for the contents.  `Kill` stops every task of a process that
has not returned.  `File.Move` is taken to be atomic and to fail if the new name exists
(.NET; external).

### Driver

The processes of `TrapWriter` get the code around their tasks.  `stage` is where `Extractor.Run` is:
"start", "move" (in `LogRoslynArgs`, between `File.Exists` and `File.Move`), "read" (the first
`Parallel.Invoke`), "extract" (the second), "dispose" (leaving the `using` statement) and "exited".
`logged` holds the command lines that have a file in the log folder, `claim` what `LogRoslynArgs`
returned, `errors` the processes with `TotalErrors > 0` (more than that is never asked of the count) and
`code` the exit code.  Each step of a task is one of `TrapWriter`, restricted to the stage in which it
runs; `MissFile`, `EndTask` and `ThrowTask` add what it does to the count.  The trap file of the
compilation (`Last`) is closed when `Run` leaves, after the code has been computed.  More is allowed than
in the code: any number of threads, any order of tasks.  What `NotACompiler` stands for includes the
return at the top of `Run` for the CLR tracer.

## Runs

| Run | Question | Instance | Result |
|---|---|---|---|
| `parser_service` | Do client and process stay in step and keep the promise of `ParserService`, and does every call return? | 2 files (one a redirect of the compiler), 2 projects, all lists without repetition, 2 queued callbacks, deletion of a file, every exit code, failing starts | holds, 79 070 states |
| `build_faults` | Does it end, forget nothing and report truly, whatever fails; is each file extracted once, TypeScript in the announced order and by its best project, with its snippets known? | 2 HTML files with a snippet each, 3 TypeScript files, 2 projects, 3 JavaScript files of which one is compiled from TypeScript, 1 extern, 2 threads; an HTML, a TypeScript and a JavaScript file that may vanish, one that throws, any death, failing starts, a cache in which two files coincide and an entry that another process trims | holds, 98 308 states |
| `build_cached` | Are snippets known when an HTML file is in the cache? | two HTML files with equal contents | violated |
| `build_skipped` | Is a TypeScript file that vanishes just skipped? | extraction on the main thread | violated |
| `types` | Are numbers canonical, is the worklist exact, are members complete, is expansion cut, does every call return? | 14 types (an expanding generic interface, an infinite type, an alias, a union, one the compiler fails on), 3 symbols, 4 signatures, any order of calls, any number of compilers | holds, 153 950 states |
| `token_rescans` | Is each token that needs it scanned again? | all expressions of up to two nested operators or templates | violated |
| `context_extract` | Is each entity populated once, in its guard, never inside a label; are depth, guards and labels balanced after exceptions; does the task end? | 10 entities of all kinds that refer to each other in cycles, as a source file and as an assembly, places that may throw in both contexts, nesting limit 3 | holds, 46 353 states |
| `context_twice` | May a constructor come back to its own entity? | array first | violated |
| `driver_processes` | Is any trap file torn, replaced or lost, and does Ok mean what it says? | 3 processes, 2 with the same command line, 7 tasks, 3 trap files, missing files, exceptions, failing moves and claims, compilation errors, a process that is killed | holds, 879 538 states |
| `driver_last_wins` | Of two processes that extract the same assembly at the same time, does the one that finishes last win? | 2 processes, each with a source file, the assembly they share and a compilation; both look for an existing trap file of the assembly first, and one of the extractions may throw | violated |
| `driver_elsewhere` | May the two processes with the same command line work in different directories? | that of `driver_processes`, with other files in the second | violated |
| `comment_binding` | Does the merge find the elements around each comment, and lose or repeat no line? | 7 elements (nested, beside each other, in other files, with and without keys), 6 comment lines, all selections of 4 and 3 in any order | holds, 172 467 states |

### Findings

- **A skipped file is not skipped** (`build_skipped`).  The process was given the list before the
  file vanished, and rejects the next request as out of order; the build exits with 1.
- **Cached HTML files have no snippets** (`build_cached`).  A hit in the trap cache returns before
  the HTML extractor runs, which is what records TypeScript snippets.
- **Populated twice** (`context_twice`).  An entity is cached after its constructor has returned;
  the constructor of an array type creates its element type, whose population may create the same
  array type.
- **Tokens are not scanned again** (`token_rescans`).  `ast_extractor.ts:140` notes the position of
  an operator after those of its operands, and the loop waits for the positions in that order: in
  `x >> (y >> z)` the first operator passes while the second is waited for, and from then on no
  token is scanned again.

- **Skipped in another directory** (`driver_elsewhere`).  The file that claims a command line is named
  after a hash of the arguments, in which paths are relative, and not of the directory
  (`Analyser.cs:456-463`): the same arguments elsewhere are "already extracted", `Run` returns Ok, and
  nobody extracts those files.
- **The last one does not win** (`driver_last_wins`).  The note on parallel builds (`Analyser.cs:272`)
  says of a trap file that is generated concurrently "then last one wins", and that "the output should
  still be correct".  The first one stays: nothing replaces a trap file (`PublishedStays`, which holds and
  is what `Dispose` documents), and the result of an assembly that finds one is deleted unseen.  In the
  counterexample one extraction throws, its cut file is published by the `using` statement, and the
  complete result of the other process is dropped.

Smaller observations, which the models show or were made while they were written, without a run:

- `reset` replaces the state object of `main.ts`, not `hasReloadedSinceExceedingThreshold`
  (`main.ts:717`).
- With nocache ("True to overwrite existing trap file", `Assembly.cs:127` of the CIL extractor), trap
  files of assemblies are not overwritten either: assemblies discard duplicates.
- The same note calls the moves of the source archiver atomic.  `MoveOrReplace` deletes and then moves
  (`FileUtils.cs:38`: "Potential race condition here."): in between, and for good after a kill there,
  the copy is gone.  `ArchiveIsKept` excuses that window and no other.
- A TypeScript file that vanishes as the last of its list is skipped without harm, but has been noted as
  extracted by then (`AutoBuild.java:1145`); JavaScript compiled from it is left out as well, and neither
  is extracted.  `NothingForgotten` excuses this.
- A cache entry that is trimmed between the test for it and the copy ends the build with status 1
  (`FileExtractor.java:485-494`); `CachingTrapWriter.close` swallows the failure of an append.
- A snippet that is in no project is extracted by no loop (`AutoBuild.java:1045`).
- The first line of a comment block is in it twice (`CommentProcessing.cs:264-275`); `LinesInOneBlock`
  allows this and no other repetition.  An element that
  ends where a comment begins is not "before" it (the comparison is strict).
- An exception in the extraction of an assembly is logged and not counted (`Analyser.cs:303-306`), so
  Ok may be returned all the same; `ErrorsAreReported` leaves it out.  The code is computed before the
  trap file of the compilation is closed.
- A process that is killed or fails after its claim leaves the claim behind, and the same command line
  is not tried again (`Analyser.cs:468`); `OkMeansExtracted` excuses this.
- The comment on `LogRoslynArgs` (`Analyser.cs:447`) says the opposite of what it returns.
- `getSymbolId` and `getSignatureId`, when not called by `buildType`, leave the worklist for the next
  `buildType`; an alias that was met in shallow context extracts its target there
  (`type_table.ts:872`); and a signature may have two numbers, with and without the constraint that
  was cut off at the nesting limit.

### Bounds

- `MaxCallbacks = 2`: a callback is queued by `prepare-files` and by `parse`, and one more than can
  be useful shows what a second does: nothing, as `pendingResponse` is set.
- Two files and two projects suffice for a file asked for, a file read ahead, a file of another
  project, and a switch of projects in between.  `Redirected` is empty in `AutoBuild`: such a file is
  parsed without types, whatever its project, and no project is the best one for it.
- `MaxDepth` of `Context` (150 in the code) is 3, which chains of entities exceed everywhere and single
  entities do not.  A deferred part is one per entity.
- `MaxDepth` of `types` is 4 (100 in the code), one less than the string of `Function` needs, so that
  its constraint is left out at some depths and not at others.  Four instances of the generic
  interface are one more than expansion may reach.
- Four element and three comment registrations give every constellation of an element before, after
  and around a block, two around it, an element that replaces another at the same location, a block
  of two comments, a comment of two lines, and other files before and after.
- In `build_faults` the compiled JavaScript file belongs to the TypeScript file that may vanish and the
  other two to none, so each outcome of the test for compiled files occurs: there is one, it has vanished,
  there is none.
- `Trimmed` is the one entry that two files share, so that a trimmed entry may also come back.
- Three tasks of one source file, two of which have equal outputs, are what is needed for every
  outcome of `Dispose`.  Two processes with one command line race for the claim; the second of them has
  every fault, so that each can be seen with and without another process that works.  The third
  process has the same source file in another program, and refers to the output of the others.

`Context`, `Driver`, `CommentProcessor` and `Tokens` stop when their tasks have returned, so their
runs do not ask for deadlocks; the others loop at their end, or have a caller that may always call,
and do.

### Fairness

`ParserWrapper`: weak fairness of the client, which has nothing to wait for but the process; of
`HandleLine` and of `PrepareNextFile`, since Node.js runs its event loop while it lives.  The
process is not assumed to live, and nobody has to call.  `AutoBuild`: the main thread and some
thread of the pool run; the same of the process.  `Context`: the one thread of the task goes on.
`TypeTable`: the code of a call runs until it returns (`Step`); nobody has to call, and no compiler
has to be replaced.

## Proofs

All hold for every value of the constants that satisfies the assumption of the module
(`ParserAssumption`, `AutoBuildAssumption`, `TypeTableAssumption`, `ContextAssumption`,
`TrapWriterAssumption`, `DriverAssumption`, `CommentAssumption`: types of the constants, sentinels that are
not values).  `TextAssumption` says in addition what a text is: elements nest, a comment line is on one
line, and no element starts where a comment does.  Nothing is assumed finite but the limits, the lists
of files and projects, and, in `ExpansionStops` alone, the objects of the compiler, which its statement
counts.

Some properties hold on a condition on the program that is extracted, or on what happens around the
extractor.  Such a condition is a state predicate `H`, and the theorem says `Spec /\ []H => ...`: of every
run in which it holds throughout.  In `types` and `context_extract` every state satisfies it, and in
`build_faults` there are runs in which nothing that may have types vanishes; the last column says what
happens where it does not hold.  `AsksInOrder` needs none: the property itself is about the time before
a file of a list is skipped, after which `build_skipped` shows the process rejecting the next request.

| Condition | Says | Theorems | Otherwise |
|---|---|---|---|
| `TypedFilesStay` | no TypeScript file or snippet vanishes | `ExtractsByBestProject` | a file may be missing from its own project and be taken by a later one |
| `HtmlIsExtracted` | no HTML file comes from the trap cache | `KnowsEverySnippet` | `build_cached`: its snippets are not known |
| `ConstructorsDoNotNest` | no constructor comes back to its own entity | `NothingTwice`, `PopulatedInItsGuard` | `context_twice`: populated twice |
| `NeedsLabelInGuard` | an entity of a source file that needs a guard is created in one | `PopulatedInItsGuard` | an error message |
| `OneTypePerNumber` | types with one number have the same members and are all aliases or none | `ExpansionStops`, `ExtractedInFull` | what is extracted are the members of whichever comes first |
| `UnprintableHasNoNumber` | what the compiler cannot print gets no number by another object | `ExtractedInFull` | a member may get its number after a call for it has answered null, and its row is missing |

- `ParserWrapper_proofs`: `TypeCorrect`, `TakesTurns`, `ReadsAheadCorrectly`, `AnswersCorrectly`.
  That a parse call gets its own file's AST is not inductive: the answer was computed before it was
  asked for and waited through other calls.  `ParserInv` adds that it is that of the next
  announced file (`ReadAheadIsNext`), and `Lockstep`: one request or one answer to it in the pipes,
  never both, never more.  Each action has a lemma; `ThrowInv`, `AnswerInv`, `BackgroundInv` and
  `ExitInv` are the shared cases.
  `TakesEffect`, `TypesStayInTable`, `MetadataComesFirst` and `KeepsTypes` are about what calls did to the
  process, and need `EffectInv`: a dead process remembers nothing (`StateIsLost`); an answer in the pipe is
  of the type of the request, or refuses to close a project (`AnswersMatch`); what it reports is
  still true while it is on its way (`AnswerMeansEffect`); a process that has not been asked for its
  metadata is asked for nothing else (`MetadataIsFirst`); and the types of an AST are in the table from
  the moment it is parsed, ahead or not (`TypesOfAstsAreInTable`).
- `ParserRefinement_proofs`: `Implements`.  Every step of `ParserWrapper` maps to one of
  `ParserService` (a call is invoked, takes effect or returns, or the service loses its state) or to a
  stutter.  Which one depends on more than the action: the effect of a call is the step of the process
  that writes the answer, and has to be that of the call the client is in, which needs `EffectInv`.
- `AutoBuild_proofs`: `CompletesWithEveryFile`, `ExitStatusIsCorrect`, `ExtractsOnce`,
  `ParserIsUsedCorrectly`.  `BuildInv` contains `ParserInv`: the parser's own invariant survives every
  step because the autobuilder only makes calls the parser's proofs allow (`AskKeeps`), leaves it
  alone (`GoKeeps`) or lets it work (`ParserKeeps`).  The rest says who has a file: the queue, a job,
  the iteration of the main thread or a trap file, one at a time (`QueueInv`, `JobInv`, `TodoInv`,
  `NotedInv`); that the loops over sources and externs miss none (`CoverInv`); and that the flag is
  what the jobs that have ended saw (`SeenInv`).  `CompletesWithEveryFile` adds `RestInv`: when the other
  files have their turn, all TypeScript files have had theirs, so the test for compiled files misses
  none.  `RunningJobMoves`, `EarlyMoves` and `ExitMoves` are
  the three shapes that nearly all steps have.
  `AsksInOrder` adds `OrderInv`: which call the main thread is in (`CallInv`), that the process it
  announced the list to is still the one it talks to (`ProcessInv`), and that this process expects exactly
  what is left of `todo` (`ListInv`), as long as nothing has been skipped.
  `KnowsEverySnippet` adds `SnippetInv`: while the HTML files are
  submitted each is still to come or a job (`ComingInv`), and no job ends without recording its snippet
  (`RecordedInv`).  `ExtractsByBestProject` is the longest: `TypedInv` says which files the inclusion
  patterns have been found to name (`IncludedInv`), which of them are in the list or have been
  extracted (`ListedInv`, `TakenInv`), which project the process has open, has read ahead with and
  answers for (`ProjectInv`, `AheadInv`, `AnswersInv`), and what is in the trap files (`TrapInv`).  It rests
  on `BuildInv`, `EffectInv` and `OrderInv`: that the AST which comes back was parsed with the project of
  the iteration is a fact about both programs.  It also assumes that no file that may have types is a
  redirect of the compiler, which would be parsed without them.
- `TypeTable_proofs`: `NumbersAreCanonical`, `QueueIsExact`, `ExtractionAdvances`, `TypeCorrect`.
  That equal items get equal numbers is an induction over the order in which numbers are issued:
  `Functional` holds because the parts of a string were issued before it.  The calls in progress carry
  this along: `FrameOK` says of every frame of the stack that the numbers it has were issued for the
  calls it made, and that the frame above works for its next call.
  `ExpansionStops`: given a set of items that is closed under what extraction in full context leads to, and
  one for shallow context, no call, entry of the worklist or issued number is outside of them (`CutOK`);
  this needs to know in which context each phase runs (`ContextOK`) and what the entries are for
  (`EntriesKnown`).  `BuiltTypesAreFull`: there is a set of numbers, closed under the parts of their strings,
  that holds what has been built and whose types are extracted in full or wait for it (`FullSet`).
  `ExtractedInFull`: a call answers null only for what cannot be printed, or cannot at its depth
  (`AnswersOK`), and the rows of a type are those the loop over its members has come past
  (`MembersOK` = `RowsOK`, `ExtractingOK`, `FinishedOK`).  Closures are recursive
  functions on numbers of steps; what is needed of them is shown by an induction for a set of naturals
  (`SetInduction`, from the least number principle), not for an operator.  What fails is a least fixed
  point (`Nulls`).
- `Context_proofs`: `TypeCorrect`, `NothingLeftOver`, `LabelsAreUnbroken`, `GuardsDoNotNest`.
  `Balanced` speaks of the empty stack only; `ContextInv` says for every stack which frame holds what:
  the depth is the number of frames with a scope, there is at most one guard and it belongs to one
  frame, above a frame that writes a label there are only constructors, and queued actions that
  had to wait carry no guard.  The stack changes in few ways (its top moves on, a frame or a guard is
  pushed, a frame leaves), and a lemma for each keeps the frame part of the invariant; the actions
  then cite these.  The two action properties follow from the invariant before and after the step.
  `NoLabelWithoutDefinition` and `NothingUnpopulated` count: what an entity has had, what the
  frames of the stack still owe it and what waits in the queue are together at least one once it is in
  the cache (`AtLeastOnce`), and nothing is owed when the task is done (`PlacesInv`).  `NothingTwice` is the
  other bound of the same sums (`AtMostOnce`).  `PopulatedInItsGuard` follows what is on its way to be
  populated, on the stack and in the queue, with the guard it was created in (`AtHome`).
- `TrapWriter_proofs`: `TrapFilesAreWhole`, `ResultsAreKept`, `TrapFilesStay`,
  `SourcesAreArchived`.  `TrapInv` relates the place of a task to its temporary file (`TempIsWritten`)
  and to the trap folder (`MainIsThere`, `DropsDuplicates`, `HashIsOfContents`): a temporary file is
  only deleted when there is a file with its contents.  A move that succeeds is one lemma, every
  other step of `Dispose` another, and the two uses of `TryMove` share them.
- `Driver_proofs`: `DriverRunsTasks`, `DriverInvariant`, `DriverKeepsResults`, `NoErrorIsLost`, `OkIsPerfect`.
  The driver implements `TrapWriter`: every step is a step of its `Spec` or leaves its variables alone,
  so its theorems carry over.  `DriverInv` says which claim, code and places of tasks belong to a stage
  (`ClaimsFollowStages`, `TasksFollowStages`), that a process told to skip has somebody to rely on
  (`SomebodyClaims`), and that the count misses nothing that went wrong (`ErrorsAreCounted`); from these,
  a process with a claim that returns Ok has run all its tasks (`OkIsEarned`), and `MainIsThere` of
  `TrapInv` gives their trap files.  `OkIsPerfect` assumes `SameCommandSameFiles`; the run
  `driver_elsewhere` shows that it has to.
- `CommentProcessor_proofs`: `BindingsCorrect`, `StackNested`, `NoLineLost`, `TypeCorrect`.  `MergeInv`
  says what the stack is: the element passed last and all that contain it, outermost first.  The
  elements before, after and around a block can then be read off the stack and the next element, and
  are those that the definition over the whole text (`BindingsAreRight`) names.  A block is a sequence of
  lines in the order of the text, of which only the first is ever added again (`IsBlock`).  The order in which
  elements and comments were registered has left the state by then; what remains of it are the two
  dictionaries.

Only model-checked: liveness (`CallReturns` of `ParserWrapper` and `TypeTable`, `BuildEnds`,
`ExtractionEnds`), which needs fairness and so `ENABLED`, and what the six violated runs ask.  Every
other property of a passing run is stated by a theorem.  What
the theorems named above do not state in the proof modules are the lemmas they rest on.

## Not modelled

- Parser: the search for a Node.js binary, package resolution, the rest of an AST.  A line cut off
  by the death of the process is an end of stream.
- Autobuilder: environment variables, layout filters, npm, `extractXml`, a source tree without
  projects.  Of the trap cache: sizes and times, by which `trimCacheToSize` chooses its entries; a
  process that dies while it publishes (the move is atomic, the temporary file stays behind).
- Type table: how strings are put together from the compiler's objects, staggered arrays,
  base-type lookups that fail; the classification of types as expansive, which is out of reach of
  the default configuration.
- Tokens: layout, comments and tokens other than those that need a rescan, names, `+`.
- Context: the guard `ExtractComments` takes around `BindTo`; exceptions are of one kind; a
  nested `Try` in expressions and variable declarations; a second deferred part.  Error messages
  about entities that need a guard and have none (`Complained`) occur in assemblies only.
- TrapWriter: modification times (a trap file that exists is up to date), edits of source files
  during the build, compression, extractions that write no tuple and so no file.
- Driver: layouts (excluded files), `ExtractStandalone`, thread limits, performance figures, and whether
  a hash of the arguments may collide.
- CommentProcessor: how a comment is split into lines (`CommentLine`); the callback writes the
  bindings, which is one tuple each.
- The components with status `not_modelled` in `PROJECT.json`, with the reason there.  Most of the
  repository's lines are in them: the queries and libraries in QL, the declaration files of
  `javascript/externs` (input to the extractor, not code of it), recursive-descent parsers and walks
  over one tree, which have no step another actor could come between.

## Plan

Done, in this order: the parser and its refinement and proofs; `AutoBuild`; `Context` and its proofs;
`TrapWriter` and its proofs; `TypeTable` and its proofs; `CommentProcessor` and its proofs; `Tokens`;
the steps of the trap cache in `AutoBuild`, and its proofs; `Driver`, composed with `TrapWriter`, and its
proofs; the proofs that the parser implements `ParserService` and that its calls take effect; those of
order, snippets and best project of `AutoBuild`; of what `Context` owes each entity; and of the
closures of `TypeTable`.  Next:

1. `PathCache` (`CanonicalPathCache`): the bound and the agreement of cached and computed paths
   under recursion and eviction; proved.
2. The C# autobuilder: combinators of `BuildScript` against a reference definition.
3. Proofs with weaker conditions: `ExtractsByBestProject` for the files that stay while others vanish,
   `NothingTwice` for the entities whose own constructors do not nest, `ExtractedInFull` up to the
   types that share a string.  That `Driver` ends with every claim accounted for, as a refinement of a
   service of one extraction per command line.
