------------------------------ MODULE AutoBuild -------------------------------
(***************************************************************************)
(* The JavaScript autobuilder (com.semmle.js.extractor.AutoBuild) driving  *)
(* the file extractor, the thread pool and the TypeScript parser wrapper:  *)
(* HTML files first, which may contain TypeScript snippets; then every     *)
(* tsconfig.json project; then the TypeScript files of no project; then    *)
(* everything else, and the externs.                                       *)
(*                                                                         *)
(* The main thread alone talks to the parser wrapper.  HTML, JavaScript    *)
(* and extern files are jobs of the thread pool.                           *)
(***************************************************************************)
EXTENDS ParserWrapper, Integers, FiniteSets

CONSTANTS
  Order,        \* all files, in PATH_ORDERING
  TsConfigs,    \* the tsconfig.json files, in PATH_ORDERING
  Html, TypeScript, Snippet, Extern,   \* kinds of files; the others are .js
  SnippetOf,    \* [Html -> Snippet \cup {NoFile}]: its TypeScript script tag
  DerivedFrom,  \* [File -> SUBSET TypeScript]: .ts files with the same stem
  Content,      \* [File -> contents]: equal contents share a cache entry
  HasCode,      \* files with at least one line of code
  Broken,       \* files whose extraction throws
  Caching,      \* a trap cache is used
  WarmCache,    \* the contents in the cache when we start
  Trimmed,      \* contents whose entry another process on the cache may delete
  Threads,      \* size of the pool; 0 for extraction on the main thread
                \* (also what LGTM_THREADS = 1 gives)
  NoFile, NoTrap

Source == File \ (Snippet \cup Extern)

Position(f) == CHOOSE i \in DOMAIN Order : Order[i] = f
Earlier(f, fs) == {g \in fs : Position(g) < Position(f)}

\* The list of fs in PATH_ORDERING: after i - 1 files comes the one with as many before it.
Sorted(fs) == [i \in 1 .. Cardinality(fs) |-> CHOOSE f \in fs : Cardinality(Earlier(f, fs)) = i - 1]

ASSUME AutoBuildAssumption ==
  /\ Order \in Seq(File) /\ \A f \in File : \E i \in DOMAIN Order : Order[i] = f
  /\ Html \cup TypeScript \cup Snippet \cup Extern \subseteq File
  /\ Html \cap (Snippet \cup Extern) = {} /\ Snippet \cap Extern = {}
  /\ TypeScript \cap (Html \cup Snippet \cup Extern) = {}
  /\ TsConfigs \in Seq(Project)
  /\ \A p \in Project : OwnFiles[p] \subseteq ProgramFiles[p]
  /\ \A fs \in SUBSET (TypeScript \cup Snippet) : Sorted(fs) \in Batches
  /\ SnippetOf \in [Html -> Snippet \cup {NoFile}]
  /\ DerivedFrom \in [File -> SUBSET TypeScript]
  /\ HasCode \cup Broken \subseteq File
  /\ Caching \in BOOLEAN
  /\ Threads \in Nat \ {1}
  /\ {NoTrap, "cached", "extracted"} \cap (Project \cup {NoProject}) = {}
  /\ NoTrap \notin {"cached", "extracted"}

VARIABLES
  step,           \* where the main thread is
  tsconfigIndex,  \* the project of the current loop iteration
  todo,           \* what is left of the sorted list being iterated over
  extractedFiles, explicitlyIncluded, snippets,
  queue,          \* jobs no thread of the pool has taken
  job,            \* how far each file's job is
  cache,          \* contents with an entry in the trap cache
  trap,           \* how each file was extracted
  seenCode,
  skipped,        \* files a warning says are skipped
  status          \* exit status of the program

buildVars == <<step, tsconfigIndex, todo, extractedFiles, explicitlyIncluded,
               snippets, queue, job, cache, trap, seenCode,
               skipped, status>>
vars == <<parserVars, buildVars>>

Running == -2      \* no exit status yet

IsTypeScript(f) == f \in TypeScript \cup Snippet

-----------------------------------------------------------------------------
(* doExtract and FileExtractor.extract on the pool, one job per file.      *)

Jobs == Source \cup Extern
Busy == {f \in Jobs : job[f] \notin {"none", "queued", "done"}}
AllDone == \A f \in Jobs : job[f] \in {"none", "done"}
PoolAccepts == Threads = 0 => AllDone

JobStep(f, from, to) == job[f] = from /\ step # "done" /\ job' = [job EXCEPT ![f] = to]
OtherThanJob == <<step, tsconfigIndex, todo, extractedFiles, explicitlyIncluded, status>>

\* System.exit(1), on whichever thread.
ExitProgram(code) == step' = "done" /\ status' = code

\* A thread takes the next job; a file that is gone is skipped with a warning.
StartJob ==
  /\ queue # <<>> /\ step # "done"
  /\ Cardinality(Busy) < (IF Threads = 0 THEN 1 ELSE Threads)
  /\ LET f == Head(queue) IN
     /\ queue' = Tail(queue)
     /\ job' = [job EXCEPT ![f] = IF f \in exists THEN "lookup" ELSE "done"]
     /\ skipped' = IF f \in exists THEN skipped ELSE skipped \cup {f}
  /\ UNCHANGED <<parserVars, OtherThanJob, snippets, cache, trap, seenCode>>

\* Without a trap cache the externs still use the one of the distribution.
Cached(f) == (Caching \/ f \in Extern) /\ Content[f] \in cache

\* The source is read, and there is an entry for it.
CacheHit(f) ==
  /\ f \in exists /\ Cached(f)
  /\ JobStep(f, "lookup", "copy")
  /\ UNCHANGED <<parserVars, OtherThanJob, queue, snippets, cache, trap, seenCode, skipped>>

\* Mutant: an entry that has gone is a file without tuples.
CopyCached_Forgives(f) ==
  /\ JobStep(f, "copy", "finish")
  /\ trap' = IF Cached(f) THEN [trap EXCEPT ![f] = "cached"] ELSE trap
  /\ UNCHANGED <<parserVars, OtherThanJob, queue, snippets, cache, seenCode, skipped>>

\* The cached tuples are appended to the trap file and nothing else is done.
CopyCached(f) ==
  /\ Cached(f)
  /\ JobStep(f, "copy", "finish")
  /\ trap' = [trap EXCEPT ![f] = "cached"]
  /\ UNCHANGED <<parserVars, OtherThanJob, queue, snippets, cache, seenCode, skipped>>

CacheMiss(f) ==
  /\ f \in exists /\ ~Cached(f)
  /\ JobStep(f, "lookup", "extract")
  /\ UNCHANGED <<parserVars, OtherThanJob, queue, snippets, cache, trap,
                 seenCode, skipped>>

\* HTMLExtractor.extractSnippet: the snippet is written to its virtual file,
\* and then recorded in ExtractorState.snippets.
WriteSnippet(f) ==
  /\ f \in Html \ Broken /\ SnippetOf[f] # NoFile
  /\ JobStep(f, "extract", "record")
  /\ exists' = exists \cup {SnippetOf[f]}
  /\ UNCHANGED <<clientVars, pipes, nodeVars, OtherThanJob, queue, snippets,
                 cache, trap, seenCode, skipped>>

\* Mutant: two threads replace the map instead of adding to it.
RecordSnippet_Replaces(f) ==
  /\ JobStep(f, "record", "commit")
  /\ snippets' = {SnippetOf[f]}
  /\ UNCHANGED <<parserVars, OtherThanJob, queue, cache, trap, seenCode, skipped>>

RecordSnippet(f) ==
  /\ JobStep(f, "record", "commit")
  /\ snippets' = snippets \cup {SnippetOf[f]}
  /\ UNCHANGED <<parserVars, OtherThanJob, queue, cache, trap, seenCode, skipped>>

ExtractContents(f) ==
  /\ f \notin Broken /\ ~(f \in Html /\ SnippetOf[f] # NoFile)
  /\ JobStep(f, "extract", "commit")
  /\ UNCHANGED <<parserVars, OtherThanJob, queue, snippets, cache, trap,
                 seenCode, skipped>>

\* CachingTrapWriter.close appends to the trap file first ...
Commit(f) ==
  /\ JobStep(f, "commit", IF Caching THEN "publish" ELSE "finish")
  /\ trap' = [trap EXCEPT ![f] = "extracted"]
  /\ UNCHANGED <<parserVars, OtherThanJob, queue, snippets, cache, seenCode, skipped>>

\* ... and then moves the temporary file to the cache; a failure is ignored.
Publish(f) ==
  /\ JobStep(f, "publish", "finish")
  /\ cache' \in {cache, cache \cup {Content[f]}}
  /\ UNCHANGED <<parserVars, OtherThanJob, queue, snippets, trap, seenCode, skipped>>

\* Mutant: the code in externs counts.
FinishJob_Externs(f) ==
  /\ JobStep(f, "finish", "done")
  /\ seenCode' = (seenCode \/ f \in HasCode \/ trap[f] = "cached")
  /\ UNCHANGED <<parserVars, OtherThanJob, queue, snippets, cache, trap, skipped>>

\* The end of doExtract; the lines of code of a cached file are not known.
FinishJob(f) ==
  /\ JobStep(f, "finish", "done")
  /\ seenCode' = (seenCode \/ (f \notin Extern /\ (f \in HasCode \/ trap[f] = "cached")))
  /\ UNCHANGED <<parserVars, OtherThanJob, queue, snippets, cache, trap, skipped>>

\* The file was deleted after doExtract saw it, or the entry after the cache
\* was looked up, or the extraction throws.
JobThrows(f) ==
  /\ \/ f \notin exists /\ JobStep(f, "lookup", "done")
     \/ ~Cached(f) /\ JobStep(f, "copy", "done")
     \/ f \in Broken /\ JobStep(f, "extract", "done")
  /\ ExitProgram(1)
  /\ UNCHANGED <<parserVars, tsconfigIndex, todo, extractedFiles,
                 explicitlyIncluded, queue, snippets, cache, trap, seenCode, skipped>>

PoolStep ==
  \/ StartJob
  \/ \E f \in Jobs :
       \/ CacheHit(f) \/ CopyCached(f) \/ CacheMiss(f) \/ WriteSnippet(f)
       \/ RecordSnippet(f) \/ ExtractContents(f) \/ Commit(f) \/ Publish(f)
       \/ FinishJob(f) \/ JobThrows(f)

\* Another process starts and trims the cache to its size.
TrimCache ==
  /\ step # "done"
  /\ \E c \in Trimmed \cap cache : cache' = cache \ {c}
  /\ UNCHANGED <<parserVars, OtherThanJob, queue, job, snippets, trap, seenCode, skipped>>

-----------------------------------------------------------------------------
(* The main thread.                                                        *)

poolVars == <<queue, job, cache, seenCode>>

\* The next file of the iteration over todo.
IsNext(f) == f \in todo /\ Earlier(f, todo) = {}

\* The main thread is at "from", and not inside the parser or a job of its own.
At(from) == step = from /\ pc = "idle" /\ PoolAccepts

\* A local step of the main thread.
Go(from, to) ==
  /\ At(from) /\ step' = to
  /\ UNCHANGED <<parserVars, status>>

\* A call of the parser, and its normal return.
AskParser(from, request_, to) ==
  /\ At(from) /\ step' = to
  /\ Invoke(request_)
  /\ UNCHANGED <<tsconfigIndex, todo, explicitlyIncluded, snippets, poolVars,
                 trap, skipped, status>>

Answered(from) == At(from) /\ result.outcome = "ok"

ThisTsConfig == TsConfigs[tsconfigIndex]
InProject == tsconfigIndex <= Len(TsConfigs)

\* extractFiles: the selected files of "todo" become jobs.
SubmitFile(at, selected) ==
  /\ Go(at, at)
  /\ \E f \in todo :
       /\ IsNext(f) /\ todo' = todo \ {f}
       /\ \/ /\ f \in extractedFiles \/ f \notin selected
             /\ UNCHANGED <<extractedFiles, queue, job>>
          \/ /\ f \notin extractedFiles /\ f \in selected
             /\ extractedFiles' = extractedFiles \cup {f}
             /\ queue' = Append(queue, f)
             /\ job' = [job EXCEPT ![f] = "queued"]
  /\ UNCHANGED <<tsconfigIndex, explicitlyIncluded, snippets, cache, trap,
                 seenCode, skipped>>

SubmitHtml == SubmitFile("html", Html)

\* htmlFuture.join, and the test whether TypeScript is involved at all.
JoinHtml ==
  LET involved == TsConfigs # <<>> \/ TypeScript # {} IN
  /\ todo = {} /\ AllDone
  /\ Go("html", IF involved THEN "verify" ELSE "rest")
  /\ todo' = IF involved THEN {} ELSE Source
  /\ UNCHANGED <<tsconfigIndex, extractedFiles, explicitlyIncluded, snippets,
                 poolVars, trap, skipped>>

\* verifyTypeScriptInstallation: throws if Node.js does not start.
VerifyInstallation ==
  /\ \/ Go("verify", IF Len(TsConfigs) > 1 THEN "own" ELSE "open")
     \/ StartErrors # {} /\ Go("verify", "unwind")
  /\ UNCHANGED <<tsconfigIndex, todo, extractedFiles, explicitlyIncluded,
                 snippets, poolVars, trap, skipped>>

\* Which files do the inclusion patterns name, if there are several projects?
GetOwnFiles ==
  /\ InProject
  /\ AskParser("own", [command |-> "get-own-files", tsConfig |-> ThisTsConfig], "owning")
  /\ UNCHANGED extractedFiles

GotOwnFiles ==
  /\ Answered("owning")
  /\ Go("owning", IF tsconfigIndex < Len(TsConfigs) THEN "own" ELSE "open")
  /\ explicitlyIncluded' = explicitlyIncluded \cup result.response.ownFiles
  /\ tsconfigIndex' = IF tsconfigIndex < Len(TsConfigs) THEN tsconfigIndex + 1 ELSE 1
  /\ UNCHANGED <<todo, extractedFiles, snippets, poolVars, trap, skipped>>

OpenTsConfig ==
  /\ InProject
  /\ AskParser("open", [command |-> "open-project", tsConfig |-> ThisTsConfig], "opening")
  /\ UNCHANGED extractedFiles

\* Mutant: the first project that refers to a file takes it.
Claimed_First(own, all) ==
  {f \in all : f \in Source \cup snippets /\ IsTypeScript(f) /\ f \notin extractedFiles}

\* Mutant: what other projects have extracted is extracted again.
Claimed_Again(own, all) ==
  {f \in all : /\ f \in Source \cup snippets
               /\ f \in own \/ f \notin explicitlyIncluded
               /\ IsTypeScript(f)}

\* The files this project is used for.
Claimed(own, all) ==
  {f \in all : /\ f \in Source \cup snippets
               /\ f \in own \/ f \notin explicitlyIncluded
               /\ IsTypeScript(f)
               /\ f \notin extractedFiles}

\* Mutant: every file of the program is noted as extracted.
OpenedTsConfig_MarksAll ==
  /\ Answered("opening") /\ Go("opening", "prepare")
  /\ todo' = Claimed(result.response.ownFiles, result.response.allFiles)
  /\ extractedFiles' = extractedFiles \cup result.response.allFiles
  /\ UNCHANGED <<tsconfigIndex, explicitlyIncluded, snippets, poolVars, trap, skipped>>

OpenedTsConfig ==
  /\ Answered("opening") /\ Go("opening", "prepare")
  /\ todo' = Claimed(result.response.ownFiles, result.response.allFiles)
  /\ UNCHANGED <<tsconfigIndex, extractedFiles, explicitlyIncluded, snippets,
                 poolVars, trap, skipped>>

\* Mutant: the list is announced in another order than it is iterated over.
Announce_Reversed ==
  /\ LET list == Sorted(todo) IN
     AskParser("prepare",
               [command |-> "prepare-files",
                files |-> [i \in DOMAIN list |-> list[Len(list) + 1 - i]]], "preparing")
  /\ UNCHANGED extractedFiles

\* extractTypeScriptFiles: announce the list, then extract it in order.
Announce ==
  /\ AskParser("prepare", [command |-> "prepare-files", files |-> Sorted(todo)], "preparing")
  /\ UNCHANGED extractedFiles

Announced ==
  /\ Answered("preparing") /\ Go("preparing", "parse")
  /\ UNCHANGED <<tsconfigIndex, todo, extractedFiles, explicitlyIncluded,
                 snippets, poolVars, trap, skipped>>

NextTypeScriptFile ==
  /\ \E f \in todo :
       /\ IsNext(f)
       /\ extractedFiles' = extractedFiles \cup {f}
       /\ \/ /\ f \in exists
             /\ Go("parse", "read")
             /\ UNCHANGED <<todo, skipped>>
          \/ /\ f \notin exists             \* "Skipping, which does not exist"
             /\ Go("parse", "parse")
             /\ todo' = todo \ {f}
             /\ skipped' = skipped \cup {f}
  /\ UNCHANGED <<tsconfigIndex, explicitlyIncluded, snippets, poolVars, trap>>

\* Reading the source text fails if the file has just been deleted.
ParseFile ==
  /\ step = "read"
  /\ \E f \in todo :
       /\ IsNext(f)
       /\ \/ f \in exists /\ AskParser("read", [command |-> "parse", file |-> f], "parsing")
          \/ /\ f \notin exists
             /\ ExitProgram(1)
             /\ UNCHANGED <<parserVars, tsconfigIndex, todo, explicitlyIncluded,
                            snippets, poolVars, trap, skipped>>
  /\ UNCHANGED extractedFiles

ParsedFile ==
  /\ Answered("parsing")
  /\ \E f \in todo :
       /\ IsNext(f)
       /\ \/ /\ f \notin Broken
             /\ Go("parsing", "parse")
             /\ trap' = [trap EXCEPT ![f] = result.response.project]
             /\ seenCode' = (seenCode \/ f \in HasCode)
             /\ todo' = todo \ {f}
          \/ /\ f \in Broken
             /\ ExitProgram(1)
             /\ UNCHANGED <<parserVars, trap, seenCode, todo>>
  /\ UNCHANGED <<tsconfigIndex, extractedFiles, explicitlyIncluded, snippets,
                 queue, job, cache, skipped>>

CloseTsConfig ==
  /\ todo = {} /\ InProject
  /\ AskParser("parse", [command |-> "close-project", tsConfig |-> ThisTsConfig], "closing")
  /\ UNCHANGED extractedFiles

ClosedTsConfig ==
  /\ Answered("closing") /\ Go("closing", "open")
  /\ tsconfigIndex' = tsconfigIndex + 1
  /\ UNCHANGED <<todo, extractedFiles, explicitlyIncluded, snippets, poolVars,
                 trap, skipped>>

GetTypeTable ==
  /\ ~InProject /\ TsConfigs # <<>>
  /\ AskParser("open", [command |-> "get-type-table"], "typing")
  /\ UNCHANGED extractedFiles

\* The type table is written out; then the TypeScript files of no project.
RemainingFiles ==
  LET rest == {f \in Source : IsTypeScript(f) /\ f \notin extractedFiles}
      from == IF TsConfigs = <<>> THEN "open" ELSE "typing" IN
  /\ from = "typing" => Answered("typing")
  /\ Go(from, IF rest = {} THEN "kill" ELSE "prepare")
  /\ todo' = rest
  /\ UNCHANGED <<tsconfigIndex, extractedFiles, explicitlyIncluded, snippets,
                 poolVars, trap, skipped>>

StopParser ==
  /\ \/ At("kill")
     \/ At("parse") /\ todo = {} /\ ~InProject
  /\ KillProcess
  /\ step' = "rest"
  /\ todo' = Source
  /\ UNCHANGED <<tsconfigIndex, extractedFiles, explicitlyIncluded, snippets,
                 poolVars, trap, skipped, status>>

\* isFileDerivedFromTypeScriptFile, for the files extracted so far.
IsDerived(f) == DerivedFrom[f] \cap extractedFiles # {}

\* Mutant: nothing is recognised as derived.
SubmitRest_All == SubmitFile("rest", Source)

SubmitRest == SubmitFile("rest", {f \in Source : ~IsDerived(f)})

EndOfSource ==
  /\ todo = {} /\ Go("rest", "externs")
  /\ todo' = Extern
  /\ UNCHANGED <<tsconfigIndex, extractedFiles, explicitlyIncluded, snippets,
                 poolVars, trap, skipped>>

SubmitExtern == SubmitFile("externs", Extern)

EndOfExterns ==
  /\ todo = {} /\ Go("externs", "shutdown")
  /\ UNCHANGED <<tsconfigIndex, todo, extractedFiles, explicitlyIncluded,
                 snippets, poolVars, trap, skipped>>

\* An exception of the parser: inside doExtract it ends the program, outside
\* it unwinds run(), whose finally block waits for the pool.
ParserThrew ==
  /\ At(step) /\ result # NoResult /\ result.outcome # "ok"
  /\ \/ step = "parsing" /\ ExitProgram(1)
     \/ /\ step \in {"owning", "opening", "preparing", "closing", "typing"}
        /\ step' = "unwind"
        /\ UNCHANGED status
  /\ UNCHANGED <<parserVars, tsconfigIndex, todo, extractedFiles,
                 explicitlyIncluded, snippets, poolVars, trap, skipped>>

\* Mutant: the pool is shut down without waiting for its jobs.
Finish_NoWait ==
  /\ \/ At("shutdown") /\ ExitProgram(IF seenCode THEN 0 ELSE -1)
     \/ At("unwind") /\ ExitProgram(1)
  /\ UNCHANGED <<parserVars, tsconfigIndex, todo, extractedFiles,
                 explicitlyIncluded, snippets, poolVars, trap, skipped>>

\* shutdownThreadPool has waited for every job; the exit status of run().
Finish ==
  /\ AllDone
  /\ \/ At("shutdown") /\ ExitProgram(IF seenCode THEN 0 ELSE -1)
     \/ At("unwind") /\ ExitProgram(1)
  /\ UNCHANGED <<parserVars, tsconfigIndex, todo, extractedFiles,
                 explicitlyIncluded, snippets, poolVars, trap, skipped>>

MainStep ==
  \/ SubmitHtml \/ JoinHtml \/ VerifyInstallation \/ GetOwnFiles \/ GotOwnFiles
  \/ OpenTsConfig \/ OpenedTsConfig \/ Announce \/ Announced
  \/ NextTypeScriptFile \/ ParseFile \/ ParsedFile \/ CloseTsConfig
  \/ ClosedTsConfig \/ GetTypeTable \/ RemainingFiles \/ StopParser
  \/ SubmitRest \/ EndOfSource \/ SubmitExtern \/ EndOfExterns
  \/ ParserThrew \/ Finish

ParserStep == step # "done" /\ Internal /\ UNCHANGED buildVars
DeleteSource == step # "done" /\ (\E f \in File : DeleteFile(f)) /\ UNCHANGED buildVars
Ended == step = "done" /\ UNCHANGED vars

BuildInit ==
  /\ ParserInit
  /\ exists = File \ Snippet
  /\ step = "html"
  /\ tsconfigIndex = 1
  /\ todo = Source
  /\ extractedFiles = {}
  /\ explicitlyIncluded = {}
  /\ snippets = {}
  /\ queue = <<>>
  /\ job = [f \in Jobs |-> "none"]
  /\ cache = WarmCache
  /\ trap = [f \in File |-> NoTrap]
  /\ seenCode = FALSE
  /\ skipped = {}
  /\ status = Running

BuildNext == MainStep \/ PoolStep \/ ParserStep \/ DeleteSource \/ TrimCache \/ Ended

\* Every thread runs, and so does the process while it lives.
BuildFairness ==
  /\ WF_vars(MainStep)
  /\ WF_vars(PoolStep)
  /\ WF_vars(step # "done" /\ ClientStep /\ UNCHANGED buildVars)
  /\ WF_vars(step # "done" /\ HandleLine /\ UNCHANGED buildVars)
  /\ WF_vars(step # "done" /\ PrepareNextFile /\ UNCHANGED buildVars)

BuildSpec == BuildInit /\ [][BuildNext]_vars
BuildFairSpec == BuildSpec /\ BuildFairness

-----------------------------------------------------------------------------
(* Properties.                                                             *)

Completed == step = "done" /\ status # 1

\* The project a TypeScript file should be extracted with: the first that
\* includes it, or else the first that only references it.
First(S) == TsConfigs[CHOOSE i \in S : \A j \in S : i <= j]
BestProject(f) ==
  LET referring == {i \in DOMAIN TsConfigs : f \in ProgramFiles[TsConfigs[i]]}
      including == {i \in referring : f \in OwnFiles[TsConfigs[i]]} IN
  IF including # {} THEN First(including)
  ELSE IF referring # {} THEN First(referring)
  ELSE NoProject

\* When a run completes, each TypeScript file that is there has been extracted
\* with the type information of its best project, and each snippet that belongs
\* to a project too: through the order of the projects, the list of explicitly included
\* files, the read-ahead and restarts of the compiler (extractTypeScript).
TypedByBestProject ==
  Completed =>
    /\ \A f \in TypeScript \cap exists : trap[f] = BestProject(f)
    /\ \A f \in snippets \cap exists : BestProject(f) # NoProject => trap[f] = BestProject(f)

\* Whenever the process is about to handle a parse request, the file is the
\* next one of the list it was given.
HeadIsNext ==
  node = "running" /\ stdin # <<>> /\ Head(stdin).command = "parse"
    => NextFileIs(Head(stdin).file)

\* As long as no file of a list has been skipped (see SkippingIsHarmless), the
\* order of prepareFiles and the order of the parse calls agree
\* (extractTypeScriptFiles, handleParseCommand).
NoneSkipped == skipped \cap (TypeScript \cup Snippet) = {}
RequestsInAnnouncedOrder == NoneSkipped => HeadIsNext

\* A run that completes has extracted every file that was there throughout,
\* except JavaScript compiled from TypeScript that has been extracted too, or
\* that has disappeared; and of a JavaScript file and what it was compiled from
\* it has never extracted both (extractSource).
NothingForgotten ==
  Completed =>
    /\ \A f \in Jobs \cap exists :
         trap[f] # NoTrap \/ \E g \in DerivedFrom[f] : trap[g] # NoTrap \/ g \notin exists
    /\ \A f \in Source \ (Html \cup TypeScript) :
         trap[f] # NoTrap => \A g \in DerivedFrom[f] : trap[g] = NoTrap

\* A run only reports that it saw no code when no thread has found any, and
\* only succeeds when some thread has found some or used the cache for a file:
\* the flags are complete when the exit status is computed (run).
ExitStatusIsRight ==
  Completed =>
    (status = 0 <=> \E f \in File \ Extern :
                      \/ trap[f] = "cached"
                      \/ trap[f] # NoTrap /\ f \in HasCode)

\* No file is extracted twice, neither by two jobs nor by a job and the main
\* thread (extractedFiles).
ExtractedOnce ==
  [][\A f \in File : trap[f] # NoTrap => trap'[f] = trap[f]]_trap

\* The autobuilder ends, whatever happens to the process and the files.
BuildEnds == <>(step = "done")

\* AutoBuild.java:1201 warns "Skipping ..., which does not exist.": a file that
\* has disappeared is left out and the run goes on.
SkippingIsHarmless == skipped # {} => status # 1

\* AutoBuild.java:637, "Extract HTML files as they may contain TypeScript":
\* when projects are opened the snippet of each HTML file is known.
SnippetOfEveryHtmlFile ==
  project # NoProject =>
    \A f \in Html \cap exists : SnippetOf[f] # NoFile => SnippetOf[f] \in snippets

-----------------------------------------------------------------------------
(* What is inductive about the order of requests.                          *)

\* Where the main thread waits for an answer, and to which call.
Waiting == {"owning", "opening", "preparing", "parsing", "closing", "typing"}
CallAt ==
  [s \in Waiting |->
     CASE s = "owning"    -> "get-own-files"
       [] s = "opening"   -> "open-project"
       [] s = "preparing" -> "prepare-files"
       [] s = "parsing"   -> "parse"
       [] s = "closing"   -> "close-project"
       [] s = "typing"    -> "get-type-table"]

\* The call it waits for, or has the result of.
Asked == IF pc = "idle" THEN result.call ELSE call

CallInv ==
  /\ pc # "idle" => step \in Waiting \cup {"done"}
  /\ step \in Waiting =>
       /\ pc = "idle" => result # NoResult
       /\ Asked.command = CallAt[step]
       /\ step = "preparing" => Asked.files = Sorted(todo)
       /\ step = "parsing" => IsNext(Asked.file)

\* The process that was told the list is not replaced while it is worked off.
ProcessInv ==
  /\ step \in Waiting /\ pc = "idle" /\ result.outcome = "ok" => handle
  /\ step \in {"parse", "read", "parsing"} => handle
  /\ step = "parsing" /\ pc # "idle" => request = call

\* While it lives it expects what the main thread has not asked for yet.
RestOfList == SubSeq(pendingFiles, pendingFileIndex + 1, Len(pendingFiles))

ListInv ==
  node = "running" =>
    /\ step \in {"parse", "read"} => RestOfList = Sorted(todo)
    /\ step = "parsing" =>
         RestOfList = IF pc # "idle" /\ stdout = <<>> THEN Sorted(todo) ELSE Tail(Sorted(todo))

OrderInv == CallInv /\ ProcessInv /\ ListInv /\ HeadIsNext

-----------------------------------------------------------------------------
(* What is inductive about snippets.                                       *)

\* No HTML file is taken from the trap cache.
HtmlIsExtracted == \A f \in Html : job[f] # "copy"

\* The HTML files whose snippet has to be known.
WithSnippet == {f \in Html \cap exists : SnippetOf[f] # NoFile}

\* Until the HTML files are done with there is no process; a project is opened
\* after that.
EarlyInv == step = "html" => pc = "idle" /\ project = NoProject /\ node = "absent"

\* While the HTML files are submitted, each is still to come or is a job.
ComingInv ==
  step = "html" => \A f \in Html : (f \in todo /\ f \notin extractedFiles) \/ job[f] # "none"

\* A job on an HTML file that there is has recorded its snippet on its way out.
RecordedInv ==
  \A f \in WithSnippet :
    job[f] \in {"commit", "publish", "finish", "done"} => SnippetOf[f] \in snippets \/ step = "done"

\* When the main thread goes on, every snippet is known.
KnownInv == step \notin {"html", "done"} => \A f \in WithSnippet : SnippetOf[f] \in snippets

SnippetInv == EarlyInv /\ ComingInv /\ RecordedInv /\ KnownInv /\ SnippetOfEveryHtmlFile

-----------------------------------------------------------------------------
(* What is inductive about the projects that files are extracted with.     *)

\* The files that may have types, once the HTML files are done with.
Typed == TypeScript \cup snippets

\* None of them disappears.
TypedFilesStay == Typed \subseteq exists

\* The project that the list is about.
Current == IF InProject THEN ThisTsConfig ELSE NoProject

\* Project i extracts f, unless an earlier one has.
Takes(i, f) ==
  /\ f \in ProgramFiles[TsConfigs[i]]
  /\ \/ f \in OwnFiles[TsConfigs[i]]
     \/ \A j \in DOMAIN TsConfigs : f \notin OwnFiles[TsConfigs[j]]

\* Where the main thread is before it opens projects, and while it has a list.
Before  == {"html", "verify", "own", "owning"}
Working == {"prepare", "preparing", "parse", "read", "parsing"}

\* No TypeScript file is left when the other files have their turn, so that what
\* is compiled from one is recognised.
RestInv ==
  /\ step = "opening" => InProject
  /\ step \in Working /\ ~InProject => TypeScript \subseteq extractedFiles \cup todo
  /\ step \in {"kill", "rest", "externs", "shutdown"} => TypeScript \subseteq extractedFiles
  /\ \A f \in (Source \ (Html \cup TypeScript)) \cap extractedFiles :
       step \in {"rest", "externs", "shutdown", "unwind", "done"} /\ ~IsDerived(f)

\* HTML files are done with before there is a process, and no job is about
\* anything that may have types.
KindsOfJobs ==
  /\ \A f \in Jobs : job[f] = "record" => f \in Html
  /\ step \notin {"html", "done"} => \A f \in Html : job[f] = "done"
  /\ \A f \in TypeScript : job[f] = "none"

\* What the inclusion patterns have been found to name.
OwnBefore(n) == UNION {OwnFiles[TsConfigs[i]] : i \in {j \in DOMAIN TsConfigs : j < n}}
IncludedInv ==
  /\ step \in {"html", "verify"} => explicitlyIncluded = {} /\ tsconfigIndex = 1
  /\ step \in {"own", "owning"} =>
       /\ explicitlyIncluded \cap Typed = OwnBefore(tsconfigIndex) \cap Typed
       /\ InProject /\ Len(TsConfigs) > 1
  /\ step \notin Before \cup {"done", "unwind"} =>
       explicitlyIncluded \cap Typed =
         IF Len(TsConfigs) > 1 THEN OwnBefore(Len(TsConfigs) + 1) \cap Typed ELSE {}

\* The open project, and that its program has every file it should have.
ProjectInv ==
  /\ step \in Before \cup {"open", "typing"} => project = NoProject
  /\ step \in Working /\ node = "running" => project = Current
  /\ step \in Working /\ InProject => handle
  /\ project # NoProject => Typed \cap ProgramFiles[project] \subseteq program

\* Nothing is parsed ahead for a project that is not open any more.
AheadInv ==
  /\ step \in Before \cup {"open", "opening", "prepare", "closing", "typing"} =>
       pendingResponse = NoResponse /\ pendingFileIndex >= Len(pendingFiles)
  /\ step \in Working /\ pendingResponse # NoResponse /\ pendingResponse.file \in todo =>
       pendingResponse.project = Current

\* The answer that the main thread waits for.
RightAnswer(r) ==
  /\ step \in {"owning", "opening"} => r.ownFiles \cap Typed = OwnFiles[ThisTsConfig] \cap Typed
  /\ step = "opening" => r.allFiles \cap Typed = ProgramFiles[ThisTsConfig] \cap Typed
  /\ step = "parsing" => r.project = Current
AnswersInv ==
  /\ step \in {"owning", "opening", "closing"} => InProject /\ Asked.tsConfig = ThisTsConfig
  /\ Answering /\ request = call /\ Head(stdout).type = ExpectedType[call.command] =>
       RightAnswer(Head(stdout))
  /\ step \in Waiting /\ pc = "idle" /\ result.outcome = "ok" => RightAnswer(result.response)

\* What is in the list belongs to its project.
ListedInv ==
  step \in Working =>
    \A f \in todo :
      /\ f \in Typed /\ BestProject(f) = Current
      /\ InProject => f \in ProgramFiles[ThisTsConfig]

\* No file that a project should take falls out of the loop over the projects.
TakenInv ==
  /\ step \notin Before \cup {"kill", "rest", "externs", "shutdown", "done", "unwind"} =>
       \A f \in Typed, i \in DOMAIN TsConfigs :
         i < tsconfigIndex /\ Takes(i, f) => f \in extractedFiles
  /\ step \in Working \cup {"closing"} /\ InProject =>
       \A f \in Typed : Takes(tsconfigIndex, f) =>
         f \in extractedFiles \/ (f \in todo /\ step # "closing")
  /\ step = "typing" => ~InProject
  /\ step \in {"kill", "rest", "externs", "shutdown"} =>
       \A f \in Typed, i \in DOMAIN TsConfigs : Takes(i, f) => f \in extractedFiles

\* What has been extracted has been by its project, except for the one in hand.
TrapInv ==
  /\ step \in Before => extractedFiles \cap (TypeScript \cup Snippet) = {}
  /\ step \notin {"done", "unwind"} =>
       \A f \in Typed \cap extractedFiles :
         trap[f] = BestProject(f) \/ (step \in {"read", "parsing"} /\ f \in todo)

TypedInv ==
  /\ EarlyInv /\ ComingInv /\ KindsOfJobs /\ IncludedInv /\ ProjectInv /\ AheadInv
  /\ AnswersInv /\ ListedInv /\ TakenInv /\ TrapInv /\ TypedByBestProject
=============================================================================
