--------------------------- MODULE AutoBuild_proofs ---------------------------
(***************************************************************************)
(* Proofs about AutoBuild: it uses the parser as the parser's own proofs   *)
(* assume, extracts no file twice, forgets none, and its exit status says  *)
(* what the jobs have seen.  It asks for the files of a list in the order  *)
(* in which it announced them, knows every snippet before it opens a       *)
(* project, and extracts each TypeScript file with its best project.       *)
(***************************************************************************)
EXTENDS AutoBuild, ParserWrapper_proofs, FiniteSetTheorems

Steps == {"html", "verify", "own", "owning", "open", "opening", "prepare", "preparing",
          "parse", "read", "parsing", "closing", "typing", "kill", "rest", "externs",
          "shutdown", "unwind", "done"}

\* A job in one of these places has not written its trap file yet.
Unwritten == {"queued", "lookup", "copy", "extract", "record", "commit"}

\* In one of these it has, but what it saw does not count yet.
Uncounted == {"publish", "finish"}

JobPlace == Unwritten \cup Uncounted \cup {"none", "done"}

\* extractTypeScriptFiles: before and while it iterates over its list.
Listing == {"prepare", "preparing", "parse"}
Parsing == {"read", "parsing"}

BuildTypeOK ==
  /\ step \in Steps /\ tsconfigIndex \in Nat \ {0}
  /\ todo \in SUBSET File /\ extractedFiles \in SUBSET File /\ snippets \in SUBSET Snippet
  /\ queue \in Seq(Jobs) /\ job \in [Jobs -> JobPlace]
  /\ trap \in [File -> Project \cup {NoProject, NoTrap, "cached", "extracted"}]
  /\ seenCode \in BOOLEAN /\ status \in {Running, 0, 1, -1}

\* The queue holds jobs that nothing else has taken, each once.
QueueInv ==
  /\ \A i \in DOMAIN queue : job[queue[i]] = "queued"
  /\ \A i, j \in DOMAIN queue : queue[i] = queue[j] => i = j

\* What jobs and trap files say about a file agrees, and with extractedFiles.
JobInv ==
  /\ \A f \in Jobs : job[f] # "none" => f \in extractedFiles
  /\ \A f \in Jobs : job[f] \in Unwritten => trap[f] = NoTrap
  /\ \A f \in Jobs : job[f] \in Uncounted => trap[f] # NoTrap
  /\ \A f \in Jobs : job[f] = "record" => SnippetOf[f] \in Snippet
  /\ \A f \in File : trap[f] # NoTrap => f \in extractedFiles

\* The main thread has nothing in its list that anyone has extracted, and the
\* file it is extracting itself is nobody else's job.
TodoInv ==
  /\ step \in Listing \cup Parsing => todo \subseteq (TypeScript \cup Snippet) \ Extern
  /\ step \in Listing => todo \cap extractedFiles = {}
  /\ step \in Parsing =>
       \A f \in todo :
         IF IsNext(f)
         THEN f \in extractedFiles /\ trap[f] = NoTrap /\ (f \in Jobs => job[f] = "none")
         ELSE f \notin extractedFiles

\* An extraction that has ended and found code, or that used the cache.
Counts(f) ==
  /\ trap[f] = "cached" \/ (trap[f] # NoTrap /\ f \in HasCode)
  /\ f \in Jobs => job[f] \notin Uncounted

SeenInv == seenCode <=> \E f \in File \ Extern : Counts(f)

EndInv == Completed => AllDone /\ (status = 0 <=> seenCode)

\* A file that has been noted as extracted is, or someone is at it.
NotedInv ==
  \A f \in Jobs \cap extractedFiles \cap exists :
    \/ trap[f] # NoTrap \/ job[f] \notin {"none", "done"}
    \/ step \in Parsing /\ IsNext(f)
    \/ step = "done" /\ status = 1

Derived == {f \in File : IsDerived(f)}

\* No file falls out of the loops over the source files and the externs.
CoverInv ==
  /\ step = "rest" => Source \subseteq extractedFiles \cup Derived \cup todo
  /\ step \in {"externs", "shutdown"} \/ Completed => Source \subseteq extractedFiles \cup Derived
  /\ step = "externs" => Extern \subseteq extractedFiles \cup todo
  /\ step = "shutdown" \/ Completed => Extern \subseteq extractedFiles

\* The parser is asked to parse while the main thread is at "parsing", and what
\* a parse call returns is an AST.
AskedInv ==
  step = "parsing" =>
    IF pc = "idle" THEN result # NoResult /\ result.call.command = "parse"
                   ELSE call.command = "parse"

AstInv == pc = "idle" /\ result # NoResult /\ result.outcome = "ok"
            /\ result.call.command = "parse" => result.response \in Ast

BuildInv ==
  /\ ParserInv /\ AstInv /\ AskedInv
  /\ BuildTypeOK /\ QueueInv /\ JobInv /\ TodoInv /\ SeenInv /\ EndInv /\ NotedInv /\ CoverInv

-----------------------------------------------------------------------------
(* The constants.                                                          *)

LEMMA Kinds ==
  /\ Jobs \subseteq File /\ Jobs = Source \cup Extern /\ Jobs \cap Snippet = {}
  /\ Html \subseteq Source /\ Snippet \subseteq File /\ Snippet \cap Extern = {}
  /\ TypeScript \subseteq File /\ Extern \subseteq File
BY AutoBuildAssumption DEF AutoBuildAssumption, Jobs, Source

LEMMA Values ==
  /\ NoTrap \notin Project \cup {NoProject, "cached", "extracted"}
  /\ "cached" \notin Project \cup {NoProject, "extracted"}
  /\ Running = -2
BY AutoBuildAssumption DEF AutoBuildAssumption, Running

-----------------------------------------------------------------------------
(* Lists in PATH_ORDERING.                                                 *)

\* A file is where its position says.
LEMMA PositionOf ==
  \A f \in File : Position(f) \in Nat /\ Order[Position(f)] = f
<1>1. \A f \in File : Position(f) \in DOMAIN Order /\ Order[Position(f)] = f
  <2>1. \A f \in File : \E i \in DOMAIN Order : Order[i] = f
    BY AutoBuildAssumption DEF AutoBuildAssumption
  <2> TAKE f \in File
  <2>2. \E i : i \in DOMAIN Order /\ Order[i] = f
    BY <2>1
  <2> QED BY <2>2, Zenon DEF Position
<1>2. DOMAIN Order = 1 .. Len(Order) /\ Len(Order) \in Nat
  BY AutoBuildAssumption DEF AutoBuildAssumption
<1>3. \A n \in Nat : \A i \in 1 .. n : i \in Nat
  OBVIOUS
<1> QED BY <1>1, <1>2, <1>3

\* There are as many files as PATH_ORDERING has places for.
LEMMA FilesAreFinite == IsFiniteSet(File)
<1>1. DOMAIN Order = 1 .. Len(Order) /\ Len(Order) \in Nat /\ \A i \in DOMAIN Order : Order[i] \in File
  BY AutoBuildAssumption DEF AutoBuildAssumption
<1>2. Order \in Surjection(1 .. Len(Order), File)
  BY <1>1, AutoBuildAssumption DEF AutoBuildAssumption, Surjection
<1>3. IsFiniteSet(1 .. Len(Order))
  BY <1>1, FS_Interval
<1> QED BY <1>2, <1>3, FS_Surjection

\* Taking the first file off a sorted list leaves the sorted list of the others.
LEMMA TailOfSorted ==
  ASSUME NEW fs \in SUBSET File, NEW f \in fs, Earlier(f, fs) = {},
         Sorted(fs) \in Seq(File), Sorted(fs \ {f}) \in Seq(File)
  PROVE  Sorted(fs) # <<>> /\ Head(Sorted(fs)) = f /\ Sorted(fs \ {f}) = Tail(Sorted(fs))
<1> DEFINE n == Cardinality(fs)
<1>1. IsFiniteSet(fs) /\ IsFiniteSet(fs \ {f}) /\ n \in Nat \ {0} /\ Cardinality(fs \ {f}) = n - 1
  <2>1. IsFiniteSet(fs)
    BY FilesAreFinite, FS_Subset
  <2>2. n \in Nat
    BY <2>1, FS_CardinalityType
  <2>3. n # 0
    BY <2>1, FS_EmptySet
  <2> QED BY <2>1, <2>2, <2>3, FS_RemoveElement
<1> HIDE DEF n
<1>2. ASSUME NEW g \in fs, g # f
      PROVE  /\ Cardinality(Earlier(g, fs)) \in Nat \ {0}
             /\ Cardinality(Earlier(g, fs \ {f})) = Cardinality(Earlier(g, fs)) - 1
  <2>1. f \in Earlier(g, fs)
    <3>1. Position(f) # Position(g)
      BY <1>2, PositionOf
    <3> QED BY <3>1, PositionOf DEF Earlier
  <2>2. Earlier(g, fs) \in SUBSET fs /\ Earlier(g, fs \ {f}) = Earlier(g, fs) \ {f}
    BY DEF Earlier
  <2>3. IsFiniteSet(Earlier(g, fs))
    BY <1>1, <2>2, FS_Subset
  <2>4. Cardinality(Earlier(g, fs)) \in Nat /\ Cardinality(Earlier(g, fs)) # 0
    BY <2>1, <2>3, FS_CardinalityType, FS_EmptySet
  <2>5. Cardinality(Earlier(g, fs) \ {f}) = Cardinality(Earlier(g, fs)) - 1
    BY <2>1, <2>3, FS_RemoveElement
  <2> QED BY <2>2, <2>4, <2>5
<1>3. Cardinality(Earlier(f, fs)) = 0
  BY FS_EmptySet
<1>4. Sorted(fs)[1] = f
  <2>1. Sorted(fs)[1] = CHOOSE g \in fs : Cardinality(Earlier(g, fs)) = 0
    BY <1>1 DEF Sorted, n
  <2> QED BY <1>2, <1>3, <2>1
<1>5. ASSUME NEW i \in 1 .. (n - 1)
      PROVE  Sorted(fs)[i + 1] = Sorted(fs \ {f})[i]
  <2>1. Sorted(fs)[i + 1] = CHOOSE g \in fs : Cardinality(Earlier(g, fs)) = (i + 1) - 1
    BY <1>1 DEF Sorted, n
  <2>2. Sorted(fs \ {f})[i] = CHOOSE g \in fs \ {f} : Cardinality(Earlier(g, fs \ {f})) = i - 1
    BY <1>1 DEF Sorted, n
  <2>3. \A g : (g \in fs /\ Cardinality(Earlier(g, fs)) = (i + 1) - 1) <=>
               (g \in fs \ {f} /\ Cardinality(Earlier(g, fs \ {f})) = i - 1)
    <3> TAKE g
    <3>1. i # 0 /\ (i + 1) - 1 = i /\ \A c \in Nat : c = i <=> c - 1 = i - 1
      BY <1>1
    <3>2. CASE g = f \/ g \notin fs
      BY <1>3, <3>1, <3>2, Zenon
    <3>3. CASE g # f /\ g \in fs
      <4>1. Cardinality(Earlier(g, fs)) \in Nat
        BY <1>2, <3>3
      <4> QED BY <1>2, <3>1, <3>3, <4>1, Zenon
    <3> QED BY <3>2, <3>3
  <2> QED BY <2>1, <2>2, <2>3, Zenon
<1>6. Len(Sorted(fs)) = n /\ Len(Sorted(fs \ {f})) = n - 1
  BY <1>1 DEF Sorted, n
<1>7. Sorted(fs) # <<>> /\ Head(Sorted(fs)) = f
  BY <1>1, <1>4, <1>6
<1>8. Sorted(fs \ {f}) = Tail(Sorted(fs))
  <2>1. Tail(Sorted(fs)) \in Seq(File) /\ Len(Tail(Sorted(fs))) = n - 1
        /\ \A i \in 1 .. (n - 1) : Tail(Sorted(fs))[i] = Sorted(fs)[i + 1]
    BY <1>1, <1>6, <1>7
  <2> QED BY <1>5, <1>6, <2>1, SeqEqual
<1> QED BY <1>7, <1>8

LEMMA NextUnique ==
  ASSUME todo \in SUBSET File, NEW f, NEW g, IsNext(f), IsNext(g)
  PROVE  f = g
<1>1. /\ f \in File /\ g \in File
      /\ ~(Position(g) < Position(f)) /\ ~(Position(f) < Position(g))
  BY DEF IsNext, Earlier
<1> QED BY <1>1, PositionOf

-----------------------------------------------------------------------------
(* The parser, whose caller is the main thread.                            *)

\* While the parser works a call stays what it is until it returns.
CallKept ==
  \/ pc' = "idle" /\ pc = "idle" /\ result' = result
  \/ pc' = "idle" /\ pc # "idle" /\ result' # NoResult /\ result'.call = call
  \/ pc' # "idle" /\ pc # "idle" /\ call' = call

LEMMA ReturnKeeps ==
  ASSUME ParserInv, pc # "idle", NEW outcome \in Errors \cup {"ok"},
         NEW response \in Response \cup {NoResponse},
         Return(outcome, response),
         outcome = "ok" /\ call.command = "parse" => response \in Ast
  PROVE  CallKept /\ AstInv'
<1>1. call \in Call
  BY DEF ParserInv, Lockstep
<1>2. result' \in Result
  BY <1>1 DEF Return, Result
<1>3. result' # NoResult
  BY <1>2, ParserAssumption DEF ParserAssumption
<1> QED BY <1>3 DEF Return, CallKept, AstInv

LEMMA ThrowKeeps ==
  ASSUME ParserInv, pc # "idle", NEW error \in Errors, NEW unread, Throw(error, unread)
  PROVE  CallKept /\ AstInv'
<1>1. CASE call.command = "reset" /\ Return("ok", NoResponse)
  BY <1>1, ReturnKeeps
<1>2. CASE Return(error, NoResponse)
  BY <1>2, ReturnKeeps DEF Errors
<1> QED BY <1>1, <1>2 DEF Throw

LEMMA TalkKeeps ==
  ASSUME pc # "idle", pc' # "idle", call' = call
  PROVE  CallKept /\ AstInv'
BY DEF CallKept, AstInv

LEMMA ReadKeeps ==
  ASSUME ParserInv, ReadResponse
  PROVE  CallKept /\ AstInv'
<1> DEFINE response == Head(stdout)
           expected == response.type = ExpectedType[request.command]
<1>1. pc # "idle" /\ call \in Call /\ request \in {call, Metadata} /\ Len(stdout) = 1
  BY DEF ReadResponse, ParserInv, Lockstep
<1>2. response \in Response
  BY <1>1, OneLine DEF ParserInv, TypeOK
<1>3. CASE Throw("CatastrophicError", Tail(stdout))
  BY <1>1, <1>3, ThrowKeeps DEF Errors
<1>4. CASE pc' = "check" /\ UNCHANGED call
  BY <1>1, <1>4, TalkKeeps
<1>5. CASE expected /\ request # Metadata /\ Return("ok", response)
  <2>1. call.command = "parse" => response.type = "ast"
    BY <1>1, <1>5 DEF ExpectedType
  <2>2. response.type = "ast" => response \in Ast
    BY <1>2 DEF Response, Ast
  <2> QED BY <1>1, <1>2, <1>5, <2>1, <2>2, ReturnKeeps
<1> QED BY <1>3, <1>4, <1>5 DEF ReadResponse

LEMMA ClientKeeps ==
  ASSUME ParserInv, ClientStep
  PROVE  CallKept /\ AstInv'
<1>1. CASE ResetNothing
  <2>1. pc # "idle" /\ call.command = "reset" /\ Return("ok", NoResponse)
    BY <1>1 DEF ResetNothing
  <2> QED BY <2>1, ReturnKeeps
<1>2. CASE StartProcess
  BY <1>2, TalkKeeps DEF StartProcess
<1>3. CASE StartFails
  BY <1>3, ThrowKeeps, ParserAssumption DEF StartFails, ParserAssumption
<1>4. CASE CheckAlive
  <2>1. pc # "idle" /\ ErrorOfExit(exitCode) \in Errors
    BY <1>4 DEF CheckAlive, ErrorOfExit, Errors
  <2>2. CASE pc' = "write" /\ UNCHANGED call
    BY <2>1, <2>2, TalkKeeps
  <2> QED BY <1>4, <2>1, <2>2, ThrowKeeps DEF CheckAlive
<1>5. CASE WriteRequest
  <2>1. pc # "idle" /\ "CatastrophicError" \in Errors
    BY <1>5 DEF WriteRequest, Errors
  <2>2. CASE pc' = "read" /\ UNCHANGED call
    BY <2>1, <2>2, TalkKeeps
  <2> QED BY <1>5, <2>1, <2>2, ThrowKeeps DEF WriteRequest
<1>6. CASE ReadEndOfStream
  <2>1. pc # "idle" /\ ErrorOfExit(exitCode) \in Errors /\ "CatastrophicError" \in Errors
    BY <1>6 DEF ReadEndOfStream, ErrorOfExit, Errors
  <2> QED BY <1>6, <2>1, ThrowKeeps DEF ReadEndOfStream
<1> QED BY <1>1, <1>2, <1>3, <1>4, <1>5, <1>6, ReadKeeps DEF ClientStep

LEMMA SameClientKeeps ==
  ASSUME AstInv, UNCHANGED clientVars, pc = "idle" \/ pc # "idle"
  PROVE  CallKept /\ AstInv'
BY DEF clientVars, CallKept, AstInv

\* A step of the parser, seen from the main thread.
LEMMA ParserKeeps ==
  ASSUME ParserInv, AstInv, AskedInv, Internal, step' = step
  PROVE  ParserInv' /\ AstInv' /\ AskedInv' /\ exists' = exists
<1>1. ParserInv'
  BY StepInv DEF Next
<1>2. CallKept /\ AstInv'
  <2>1. CASE ClientStep
    BY <2>1, ClientKeeps
  <2>2. CASE HandleLine \/ PrepareNextFile \/ Crash
    <3>1. UNCHANGED clientVars
      BY <2>2 DEF HandleLine, HandleParse, HandlePrepareFiles, HandleGetOwnFiles,
           HandleOpenProject, HandleCloseProject, HandleGetTypeTable, HandleGetMetadata,
           HandleReset, Handling, PrepareNextFile, Crash
    <3> QED BY <3>1, SameClientKeeps
  <2> QED BY <2>1, <2>2 DEF Internal
<1>3. AskedInv'
  BY <1>2 DEF AskedInv, CallKept
<1>4. exists' = exists
  BY DEF Internal, ClientStep, ResetNothing, StartProcess, StartFails, CheckAlive, WriteRequest,
       ReadResponse, ReadEndOfStream, HandleLine, HandleParse, HandlePrepareFiles,
       HandleGetOwnFiles, HandleOpenProject, HandleCloseProject, HandleGetTypeTable,
       HandleGetMetadata, HandleReset, Handling, PrepareNextFile, Crash
<1> QED BY <1>1, <1>2, <1>3, <1>4

\* The main thread makes a call.
LEMMA InvokeKeeps ==
  ASSUME ParserInv, NEW c \in Call, Invoke(c),
         step' = "parsing" => c.command = "parse"
  PROVE  ParserInv' /\ AstInv' /\ AskedInv' /\ exists' = exists
<1>1. ParserInv'
  BY StepInv DEF Next
<1>2. pc' # "idle" /\ call' = c /\ exists' = exists
  BY DEF Invoke
<1> QED BY <1>1, <1>2 DEF AstInv, AskedInv

\* The parser is left alone.
LEMMA IdleKeeps ==
  ASSUME ParserInv, AstInv, AskedInv, UNCHANGED parserVars,
         step' = "parsing" => step = "parsing"
  PROVE  ParserInv' /\ AstInv' /\ AskedInv' /\ exists' = exists
<1>1. ParserInv'
  BY StepInv
<1>2. UNCHANGED <<pc, call, result, exists>>
  BY DEF parserVars, clientVars
<1> QED BY <1>1, <1>2 DEF AstInv, AskedInv

-----------------------------------------------------------------------------
(* The jobs of the pool.                                                   *)

TrapValue == Project \cup {NoProject, NoTrap, "cached", "extracted"}

\* What is left to show of a step when the parser is done with.
PoolInv ==
  /\ BuildTypeOK /\ QueueInv /\ JobInv /\ TodoInv /\ SeenInv /\ EndInv /\ NotedInv /\ CoverInv

LEMMA SameNext ==
  ASSUME UNCHANGED todo
  PROVE  \A f : IsNext(f)' <=> IsNext(f)
BY DEF IsNext, Earlier

LEMMA SameDerived ==
  ASSUME extractedFiles \subseteq extractedFiles'
  PROVE  Derived \subseteq Derived'
BY DEF Derived, IsDerived

\* Jobs do not disturb the loops of the main thread; they may end the program.
LEMMA LoopsStay ==
  ASSUME CoverInv, step # "done", UNCHANGED <<todo, extractedFiles>>,
         (step' = step /\ status' = status) \/ (step' = "done" /\ status' = 1)
  PROVE  EndInv' /\ CoverInv'
<1>1. ~Completed' /\ ~Completed
  BY DEF Completed
<1>2. Derived' = Derived
  BY DEF Derived, IsDerived
<1> QED BY <1>1, <1>2 DEF EndInv, CoverInv

\* The job of f goes to another place, with t as its trap file.
LEMMA JobMoves ==
  ASSUME BuildTypeOK, JobInv, TodoInv, SeenInv, NotedInv, CoverInv, step # "done",
         NEW f \in Jobs, NEW to \in JobPlace \ {"none", "queued"}, NEW t \in TrapValue,
         job[f] \notin {"none", "done"},
         job' = [job EXCEPT ![f] = to], trap' = [trap EXCEPT ![f] = t],
         to \in Unwritten => t = NoTrap,
         to \in Uncounted => t # NoTrap,
         to = "record" => SnippetOf[f] \in Snippet,
         to = "done" => t # NoTrap \/ f \notin exists' \/ (step' = "done" /\ status' = 1),
         seenCode' = (seenCode \/ (f \notin Extern /\ Counts(f)')),
         snippets' \in SUBSET Snippet, exists' \cap Jobs \subseteq exists,
         UNCHANGED <<todo, extractedFiles, tsconfigIndex>>, queue' \in Seq(Jobs),
         (step' = step /\ status' = status) \/ (step' = "done" /\ status' = 1)
  PROVE  BuildTypeOK' /\ JobInv' /\ TodoInv' /\ SeenInv' /\ EndInv' /\ NotedInv' /\ CoverInv'
<1>1. /\ f \in File /\ job'[f] = to /\ trap'[f] = t
      /\ \A g \in Jobs : g # f => job'[g] = job[g]
      /\ \A g \in File : g # f => trap'[g] = trap[g]
  BY Kinds DEF BuildTypeOK
<1>2. BuildTypeOK'
  BY <1>1 DEF BuildTypeOK, Steps, TrapValue, Counts
<1>3. f \in extractedFiles
  BY DEF JobInv
<1>4. JobInv'
  BY <1>1, <1>3 DEF JobInv, Unwritten, Uncounted
<1>5. TodoInv'
  <2>1. CASE step' = "done"
    BY <2>1 DEF TodoInv, Listing, Parsing
  <2>2. CASE step' = step
    <3>1. \A g \in todo : IsNext(g)' <=> IsNext(g)
      BY SameNext
    <3>2. ASSUME step \in Parsing, NEW g \in todo, IsNext(g)
          PROVE  trap'[g] = NoTrap /\ (g \in Jobs => job'[g] = "none")
      <4>1. g \in File /\ trap[g] = NoTrap /\ (g \in Jobs => job[g] = "none")
        BY <3>2 DEF TodoInv, BuildTypeOK
      <4>2. g # f
        BY <4>1
      <4> QED BY <1>1, <4>1, <4>2
    <3> QED BY <2>2, <3>1, <3>2 DEF TodoInv
  <2> QED BY <2>1, <2>2
<1>6. SeenInv'
  <2>1. ~Counts(f)
    BY <1>1, Values DEF JobInv, Counts, BuildTypeOK, JobPlace
  <2>2. \A g \in File : g # f => (Counts(g)' <=> Counts(g))
    BY <1>1 DEF Counts
  <2>3. (\E g \in File \ Extern : Counts(g)')
          <=> (\E g \in File \ Extern : Counts(g)) \/ (f \notin Extern /\ Counts(f)')
    BY <1>1, <2>1, <2>2
  <2> QED BY <2>3 DEF SeenInv
<1>7. NotedInv'
  <2>1. ASSUME NEW g \in Jobs \cap extractedFiles' \cap exists', g # f
        PROVE  \/ trap'[g] # NoTrap \/ job'[g] \notin {"none", "done"}
               \/ step' \in Parsing /\ IsNext(g)'
               \/ step' = "done" /\ status' = 1
    <3>1. g \in Jobs \cap extractedFiles \cap exists /\ g \in File
      BY <2>1, Kinds
    <3>2. \/ trap[g] # NoTrap \/ job[g] \notin {"none", "done"}
          \/ step \in Parsing /\ IsNext(g)
      BY <3>1 DEF NotedInv
    <3>3. CASE trap[g] # NoTrap \/ job[g] \notin {"none", "done"}
      BY <1>1, <2>1, <3>1, <3>3
    <3>4. CASE step \in Parsing /\ IsNext(g)
      <4>1. IsNext(g)'
        BY <3>4, SameNext
      <4> QED BY <3>4, <4>1
    <3> QED BY <3>2, <3>3, <3>4
  <2>2. ASSUME f \in exists'
        PROVE  trap'[f] # NoTrap \/ job'[f] \notin {"none", "done"} \/ (step' = "done" /\ status' = 1)
    BY <1>1, <2>2
  <2> QED BY <2>1, <2>2 DEF NotedInv
<1> QED BY <1>2, <1>4, <1>5, <1>6, <1>7, LoopsStay

\* A job that is running is not in the queue.
LEMMA QueueStays ==
  ASSUME BuildTypeOK, QueueInv, NEW f \in Jobs, NEW to, job[f] # "queued",
         job' = [job EXCEPT ![f] = to], queue' = queue
  PROVE  QueueInv'
<1>1. \A i \in DOMAIN queue : queue[i] \in Jobs /\ queue[i] # f
  BY DEF BuildTypeOK, QueueInv
<1> QED BY <1>1 DEF BuildTypeOK, QueueInv

\* The same of a job that is running.
LEMMA RunningJobMoves ==
  ASSUME PoolInv, NEW f \in Jobs, NEW from \in JobPlace \ {"none", "queued", "done"},
         NEW to \in JobPlace \ {"none", "queued"}, NEW t \in TrapValue,
         job[f] = from, step # "done", job' = [job EXCEPT ![f] = to],
         trap' = [trap EXCEPT ![f] = t],
         to \in Unwritten => t = NoTrap,
         to \in Uncounted => t # NoTrap,
         to = "record" => SnippetOf[f] \in Snippet,
         to = "done" => t # NoTrap \/ f \notin exists' \/ (step' = "done" /\ status' = 1),
         seenCode' = (seenCode \/ (f \notin Extern /\ Counts(f)')),
         snippets' \in SUBSET Snippet, exists' \cap Jobs \subseteq exists,
         UNCHANGED <<todo, extractedFiles, tsconfigIndex, queue>>,
         (step' = step /\ status' = status) \/ (step' = "done" /\ status' = 1)
  PROVE  PoolInv'
<1>1. queue' \in Seq(Jobs)
  BY DEF PoolInv, BuildTypeOK
<1>2. BuildTypeOK' /\ JobInv' /\ TodoInv' /\ SeenInv' /\ EndInv' /\ NotedInv' /\ CoverInv'
  BY <1>1, JobMoves DEF PoolInv
<1> QED BY <1>2, QueueStays DEF PoolInv

\* A place in which a job does not count, whatever it has written.
LEMMA NotCounted ==
  ASSUME NEW f \in Jobs, job'[f] \in Uncounted \/ trap'[f] = NoTrap
  PROVE  ~Counts(f)'
BY Values DEF Counts

LEMMA UncountedJob ==
  ASSUME BuildTypeOK, NEW f \in Jobs, NEW to \in JobPlace, job' = [job EXCEPT ![f] = to],
         to \in Uncounted \/ trap'[f] = NoTrap
  PROVE  ~Counts(f)'
BY NotCounted DEF BuildTypeOK

\* The places of JobStep are places.
LEMMA JobSteps ==
  ASSUME BuildTypeOK, NEW f \in Jobs, NEW from, NEW to, JobStep(f, from, to)
  PROVE  /\ step # "done" /\ job[f] = from /\ job' = [job EXCEPT ![f] = to]
         /\ trap = [trap EXCEPT ![f] = trap[f]] /\ trap[f] \in TrapValue
BY Kinds DEF JobStep, BuildTypeOK, TrapValue

LEMMA CacheHitInv ==
  ASSUME BuildInv, NEW f \in Jobs, CacheHit(f) \/ CacheMiss(f)
  PROVE  BuildInv'
<1>1. PoolInv /\ BuildTypeOK /\ JobInv
  BY DEF BuildInv, PoolInv
<1>2. PICK to \in {"copy", "extract"} : JobStep(f, "lookup", to)
  BY DEF CacheHit, CacheMiss
<1>3. /\ UNCHANGED <<parserVars, OtherThanJob, queue, snippets, trap, seenCode>>
      /\ UNCHANGED exists
  BY DEF CacheHit, CacheMiss, parserVars
<1>4. trap[f] = NoTrap
  BY <1>1, <1>2, JobSteps DEF JobInv, Unwritten
<1>5. ~Counts(f)'
  BY <1>1, <1>2, <1>3, <1>4, JobSteps, UncountedJob DEF JobPlace, Unwritten
<1>6. PoolInv'
  BY <1>1, <1>2, <1>3, <1>4, <1>5, JobSteps, RunningJobMoves
     DEF JobPlace, Unwritten, Uncounted, OtherThanJob, BuildTypeOK
<1>7. ParserInv' /\ AstInv' /\ AskedInv'
  BY <1>3, IdleKeeps DEF BuildInv, OtherThanJob
<1> QED BY <1>6, <1>7 DEF BuildInv, PoolInv

LEMMA CopyCachedInv ==
  ASSUME BuildInv, NEW f \in Jobs, CopyCached(f)
  PROVE  BuildInv'
<1>1. PoolInv /\ BuildTypeOK /\ JobInv
  BY DEF BuildInv, PoolInv
<1>2. JobStep(f, "copy", "finish") /\ trap' = [trap EXCEPT ![f] = "cached"]
  BY DEF CopyCached
<1>3. /\ UNCHANGED <<parserVars, OtherThanJob, queue, snippets, seenCode>>
      /\ UNCHANGED exists
  BY DEF CopyCached, parserVars
<1>4. ~Counts(f)'
  <2>1. "finish" \in Uncounted /\ "finish" \in JobPlace
    BY DEF JobPlace, Uncounted
  <2>2. job' = [job EXCEPT ![f] = "finish"]
    BY <1>2 DEF JobStep
  <2>3. job'[f] = "finish"
    BY <1>1, <2>2 DEF BuildTypeOK
  <2> QED BY <2>1, <2>3 DEF Counts
<1>5. PoolInv'
  <2>1. /\ "copy" \in JobPlace \ {"none", "queued", "done"}
        /\ "finish" \in JobPlace \ {"none", "queued", "record", "done"}
    BY <1>2 DEF JobPlace, Unwritten, Uncounted
  <2>2. /\ "finish" \notin Unwritten /\ "cached" # NoTrap
        /\ trap' = [trap EXCEPT ![f] = "cached"] /\ "cached" \in TrapValue
    BY <1>1, <1>2, <1>3, JobSteps, Values DEF Unwritten, Uncounted, TrapValue
  <2>3. job[f] = "copy" /\ step # "done" /\ job' = [job EXCEPT ![f] = "finish"]
    BY <1>2 DEF JobStep
  <2>4. /\ seenCode' = (seenCode \/ (f \notin Extern /\ Counts(f)'))
        /\ snippets' \in SUBSET Snippet /\ exists' \cap Jobs \subseteq exists
        /\ UNCHANGED <<todo, extractedFiles, tsconfigIndex, queue, step, status>>
    BY <1>1, <1>3, <1>4 DEF OtherThanJob, BuildTypeOK
  <2> QED BY <1>1, <2>1, <2>2, <2>3, <2>4, RunningJobMoves
<1>6. ParserInv' /\ AstInv' /\ AskedInv'
  BY <1>3, IdleKeeps DEF BuildInv, OtherThanJob
<1> QED BY <1>5, <1>6 DEF BuildInv, PoolInv

\* Files appear, which the parser is not told of.
LEMMA NewFiles ==
  ASSUME BuildInv, UNCHANGED <<clientVars, pipes, nodeVars>>, exists' \in SUBSET File, step' = step
  PROVE  ParserInv' /\ AstInv' /\ AskedInv'
<1>1. ParserInv /\ ClientTypeOK /\ PipesTypeOK /\ NodeTypeOK /\ Lockstep /\ ReadAheadIsNext
      /\ AnswerIsForRequestedFile
  BY TypeOKParts DEF BuildInv, ParserInv
<1>2. ClientTypeOK' /\ PipesTypeOK' /\ NodeTypeOK' /\ ReadAheadIsNext' /\ AnswerIsForRequestedFile'
  BY <1>1, SameClient, SamePipes, SameNode, SameReadAhead DEF nodeVars, stateVars
<1>3. Lockstep'
  BY <1>1 DEF Lockstep, PipesInStep, clientVars, pipes, nodeVars
<1>4. AstInv' /\ AskedInv'
  BY DEF BuildInv, AstInv, AskedInv, clientVars
<1> QED BY <1>2, <1>3, <1>4, TypeOKPartsPrimed DEF ParserInv

LEMMA WriteSnippetInv ==
  ASSUME BuildInv, NEW f \in Jobs, WriteSnippet(f)
  PROVE  BuildInv'
<1>1. PoolInv /\ BuildTypeOK /\ JobInv /\ exists \in SUBSET File
  BY DEF BuildInv, PoolInv, ParserInv, TypeOK
<1>2. JobStep(f, "extract", "record") /\ SnippetOf[f] \in Snippet
  BY AutoBuildAssumption DEF WriteSnippet, AutoBuildAssumption
<1>3. UNCHANGED <<clientVars, pipes, nodeVars, OtherThanJob, queue, snippets, trap, seenCode>>
  BY DEF WriteSnippet
<1>4. exists' \in SUBSET File /\ exists' \cap Jobs \subseteq exists
  BY <1>1, <1>2, Kinds DEF WriteSnippet
<1>5. trap[f] = NoTrap
  BY <1>1, <1>2, JobSteps DEF JobInv, Unwritten
<1>6. ~Counts(f)'
  BY <1>1, <1>2, <1>3, <1>5, JobSteps, UncountedJob DEF JobPlace, Unwritten
<1>7. PoolInv'
  BY <1>1, <1>2, <1>3, <1>4, <1>5, <1>6, JobSteps, RunningJobMoves
     DEF JobPlace, Unwritten, Uncounted, OtherThanJob, BuildTypeOK
<1>8. ParserInv' /\ AstInv' /\ AskedInv'
  BY <1>3, <1>4, NewFiles DEF OtherThanJob
<1> QED BY <1>7, <1>8 DEF BuildInv, PoolInv

LEMMA RecordSnippetInv ==
  ASSUME BuildInv, NEW f \in Jobs, RecordSnippet(f) \/ ExtractContents(f)
  PROVE  BuildInv'
<1>1. PoolInv /\ BuildTypeOK /\ JobInv
  BY DEF BuildInv, PoolInv
<1>2. PICK from \in {"record", "extract"} : JobStep(f, from, "commit")
  BY DEF RecordSnippet, ExtractContents
<1>3. /\ UNCHANGED <<parserVars, OtherThanJob, queue, trap, seenCode>>
      /\ UNCHANGED exists
  BY DEF RecordSnippet, ExtractContents, parserVars
<1>4. snippets' \in SUBSET Snippet
  <2>1. CASE RecordSnippet(f)
    <3>1. SnippetOf[f] \in Snippet
      BY <1>1, <2>1 DEF RecordSnippet, JobStep, JobInv
    <3> QED BY <1>1, <2>1, <3>1 DEF RecordSnippet, BuildTypeOK
  <2>2. CASE ExtractContents(f)
    BY <1>1, <2>2 DEF ExtractContents, BuildTypeOK
  <2> QED BY <2>1, <2>2
<1>5. trap[f] = NoTrap
  BY <1>1, <1>2, JobSteps DEF JobInv, Unwritten
<1>6. ~Counts(f)'
  <2>1. trap'[f] = NoTrap
    BY <1>3, <1>5
  <2> QED BY <2>1, NotCounted
<1>7. PoolInv'
  <2>1. /\ from \in JobPlace \ {"none", "queued", "done"}
        /\ "commit" \in JobPlace \ {"none", "queued", "record", "done"}
    BY <1>2 DEF JobPlace, Unwritten, Uncounted
  <2>2. /\ "commit" \notin Uncounted
        /\ trap' = [trap EXCEPT ![f] = NoTrap] /\ NoTrap \in TrapValue
    BY <1>1, <1>2, <1>3, <1>4, <1>5, JobSteps, Values DEF Unwritten, Uncounted, TrapValue
  <2>3. job[f] = from /\ step # "done" /\ job' = [job EXCEPT ![f] = "commit"]
    BY <1>2 DEF JobStep
  <2>4. /\ seenCode' = (seenCode \/ (f \notin Extern /\ Counts(f)'))
        /\ snippets' \in SUBSET Snippet /\ exists' \cap Jobs \subseteq exists
        /\ UNCHANGED <<todo, extractedFiles, tsconfigIndex, queue, step, status>>
    BY <1>1, <1>3, <1>4, <1>5, <1>6 DEF OtherThanJob, BuildTypeOK
  <2> QED BY <1>1, <2>1, <2>2, <2>3, <2>4, RunningJobMoves
<1>8. ParserInv' /\ AstInv' /\ AskedInv'
  BY <1>3, IdleKeeps DEF BuildInv, OtherThanJob
<1> QED BY <1>7, <1>8 DEF BuildInv, PoolInv

LEMMA CommitInv ==
  ASSUME BuildInv, NEW f \in Jobs, Commit(f)
  PROVE  BuildInv'
<1>1. PoolInv /\ BuildTypeOK /\ JobInv
  BY DEF BuildInv, PoolInv
<1>2. PICK to \in Uncounted : JobStep(f, "commit", to)
  BY DEF Commit, Uncounted
<1>3. /\ UNCHANGED <<parserVars, OtherThanJob, queue, snippets, seenCode>>
      /\ UNCHANGED exists /\ trap' = [trap EXCEPT ![f] = "extracted"]
  BY DEF Commit, parserVars
<1>4. ~Counts(f)'
  <2>1. to \in JobPlace /\ job' = [job EXCEPT ![f] = to]
    BY <1>2 DEF JobStep, JobPlace
  <2>2. job'[f] \in Uncounted
    BY <1>1, <1>2, <2>1 DEF BuildTypeOK
  <2> QED BY <2>2 DEF Counts
<1>5. PoolInv'
  <2>1. /\ "commit" \in JobPlace \ {"none", "queued", "done"}
        /\ to \in JobPlace \ {"none", "queued", "record", "done"}
    BY <1>2 DEF JobPlace, Unwritten, Uncounted
  <2>2. /\ to \notin Unwritten /\ "extracted" # NoTrap
        /\ trap' = [trap EXCEPT ![f] = "extracted"] /\ "extracted" \in TrapValue
    BY <1>1, <1>2, <1>3, JobSteps, Values DEF Unwritten, Uncounted, TrapValue
  <2>3. job[f] = "commit" /\ step # "done" /\ job' = [job EXCEPT ![f] = to]
    BY <1>2 DEF JobStep
  <2>4. /\ seenCode' = (seenCode \/ (f \notin Extern /\ Counts(f)'))
        /\ snippets' \in SUBSET Snippet /\ exists' \cap Jobs \subseteq exists
        /\ UNCHANGED <<todo, extractedFiles, tsconfigIndex, queue, step, status>>
    BY <1>1, <1>3, <1>4 DEF OtherThanJob, BuildTypeOK
  <2> QED BY <1>1, <2>1, <2>2, <2>3, <2>4, RunningJobMoves
<1>6. ParserInv' /\ AstInv' /\ AskedInv'
  BY <1>3, IdleKeeps DEF BuildInv, OtherThanJob
<1> QED BY <1>5, <1>6 DEF BuildInv, PoolInv

LEMMA PublishInv ==
  ASSUME BuildInv, NEW f \in Jobs, Publish(f)
  PROVE  BuildInv'
<1>1. PoolInv /\ BuildTypeOK /\ JobInv
  BY DEF BuildInv, PoolInv
<1>2. JobStep(f, "publish", "finish")
  BY DEF Publish
<1>3. /\ UNCHANGED <<parserVars, OtherThanJob, queue, snippets, trap, seenCode>>
      /\ UNCHANGED exists
  BY DEF Publish, parserVars
<1>4. trap[f] # NoTrap
  BY <1>1, <1>2, JobSteps DEF JobInv, Uncounted
<1>5. ~Counts(f)'
  BY <1>1, <1>2, JobSteps, UncountedJob DEF JobPlace, Uncounted
<1>6. PoolInv'
  BY <1>1, <1>2, <1>3, <1>4, <1>5, JobSteps, RunningJobMoves
     DEF JobPlace, Unwritten, Uncounted, OtherThanJob, BuildTypeOK
<1>7. ParserInv' /\ AstInv' /\ AskedInv'
  BY <1>3, IdleKeeps DEF BuildInv, OtherThanJob
<1> QED BY <1>6, <1>7 DEF BuildInv, PoolInv

\* The one step of a job that may set seenCode.
LEMMA FinishJobInv ==
  ASSUME BuildInv, NEW f \in Jobs, FinishJob(f)
  PROVE  BuildInv'
<1>1. PoolInv /\ BuildTypeOK /\ JobInv
  BY DEF BuildInv, PoolInv
<1>2. JobStep(f, "finish", "done")
  BY DEF FinishJob
<1>3. /\ UNCHANGED <<parserVars, OtherThanJob, queue, snippets, trap>> /\ UNCHANGED exists
      /\ seenCode' = (seenCode \/ (f \notin Extern /\ (f \in HasCode \/ trap[f] = "cached")))
  BY DEF FinishJob, parserVars
<1>4. trap[f] # NoTrap
  BY <1>1, <1>2, JobSteps DEF JobInv, Uncounted
<1>5. Counts(f)' <=> f \in HasCode \/ trap[f] = "cached"
  <2>1. job'[f] = "done"
    BY <1>1, <1>2, JobSteps DEF BuildTypeOK
  <2> QED BY <1>3, <1>4, <2>1 DEF Counts, Uncounted
<1>6. seenCode' = (seenCode \/ (f \notin Extern /\ Counts(f)'))
  BY <1>3, <1>5
<1>7. PoolInv'
  BY <1>1, <1>2, <1>3, <1>4, <1>6, JobSteps, RunningJobMoves
     DEF JobPlace, Unwritten, Uncounted, OtherThanJob, BuildTypeOK
<1>8. ParserInv' /\ AstInv' /\ AskedInv'
  BY <1>3, IdleKeeps DEF BuildInv, OtherThanJob
<1> QED BY <1>7, <1>8 DEF BuildInv, PoolInv

LEMMA JobThrowsInv ==
  ASSUME BuildInv, NEW f \in Jobs, JobThrows(f)
  PROVE  BuildInv'
<1>1. PoolInv /\ BuildTypeOK /\ JobInv
  BY DEF BuildInv, PoolInv
<1>2. PICK from \in {"lookup", "copy", "extract"} : JobStep(f, from, "done")
  BY DEF JobThrows
<1>3. /\ UNCHANGED <<parserVars, tsconfigIndex, todo, extractedFiles, queue, snippets, trap, seenCode>>
      /\ UNCHANGED exists /\ step' = "done" /\ status' = 1
  BY DEF JobThrows, ExitProgram, parserVars
<1>4. trap[f] = NoTrap
  BY <1>1, <1>2, JobSteps DEF JobInv, Unwritten
<1>5. ~Counts(f)'
  BY <1>1, <1>2, <1>3, <1>4, JobSteps, UncountedJob DEF JobPlace, Unwritten
<1>6. PoolInv'
  BY <1>1, <1>2, <1>3, <1>4, <1>5, JobSteps, RunningJobMoves
     DEF JobPlace, Unwritten, Uncounted, BuildTypeOK
<1>7. ParserInv' /\ AstInv' /\ AskedInv'
  BY <1>3, IdleKeeps DEF BuildInv
<1> QED BY <1>6, <1>7 DEF BuildInv, PoolInv

LEMMA StartJobInv ==
  ASSUME BuildInv, StartJob
  PROVE  BuildInv'
<1>1. PoolInv /\ BuildTypeOK /\ JobInv /\ QueueInv /\ TodoInv /\ SeenInv /\ NotedInv /\ CoverInv
  BY DEF BuildInv, PoolInv
<1>2. PICK f \in Jobs, to \in {"lookup", "done"} :
        /\ queue # <<>> /\ step # "done" /\ f = Head(queue) /\ queue' = Tail(queue)
        /\ job' = [job EXCEPT ![f] = to] /\ (to = "done" => f \notin exists)
  <2>1. queue # <<>> /\ step # "done" /\ queue' = Tail(queue)
    BY DEF StartJob
  <2>2. Head(queue) \in Jobs
    BY <1>1, <2>1 DEF BuildTypeOK
  <2>3. CASE Head(queue) \in exists
    <3>1. job' = [job EXCEPT ![Head(queue)] = "lookup"]
      BY <2>3 DEF StartJob
    <3> QED BY <2>1, <2>2, <3>1
  <2>4. CASE Head(queue) \notin exists
    <3>1. job' = [job EXCEPT ![Head(queue)] = "done"]
      BY <2>4 DEF StartJob
    <3> QED BY <2>1, <2>2, <2>4, <3>1
  <2> QED BY <2>3, <2>4
<1>3. UNCHANGED <<parserVars, OtherThanJob, snippets, trap, seenCode>> /\ UNCHANGED exists
  BY DEF StartJob, parserVars
<1>4. /\ queue' \in Seq(Jobs) /\ job[f] = "queued" /\ f = queue[1]
      /\ \A i \in DOMAIN queue' : i + 1 \in DOMAIN queue /\ i + 1 # 1 /\ queue'[i] = queue[i + 1]
  BY <1>1, <1>2 DEF BuildTypeOK, QueueInv
<1>5. trap[f] = NoTrap
  BY <1>1, <1>4 DEF JobInv, Unwritten
<1>6. ~Counts(f)'
  <2>1. trap'[f] = NoTrap
    BY <1>3, <1>5
  <2> QED BY <2>1, NotCounted
<1>7. BuildTypeOK' /\ JobInv' /\ TodoInv' /\ SeenInv' /\ EndInv' /\ NotedInv' /\ CoverInv'
  <2>1. to \in JobPlace \ {"none", "queued", "record"} /\ to \notin Uncounted
    BY DEF JobPlace, Unwritten, Uncounted
  <2>2. trap' = [trap EXCEPT ![f] = NoTrap] /\ NoTrap \in TrapValue
    BY <1>1, <1>3, <1>5, Kinds DEF BuildTypeOK, TrapValue
  <2>3. /\ seenCode' = (seenCode \/ (f \notin Extern /\ Counts(f)'))
        /\ snippets' \in SUBSET Snippet /\ exists' \cap Jobs \subseteq exists
        /\ UNCHANGED <<todo, extractedFiles, tsconfigIndex, step, status>>
    BY <1>1, <1>3, <1>6 DEF OtherThanJob, BuildTypeOK
  <2> QED BY <1>1, <1>2, <1>3, <1>4, <2>1, <2>2, <2>3, JobMoves
<1>8. QueueInv'
  <2>1. ASSUME NEW i \in DOMAIN queue'
        PROVE  job'[queue'[i]] = "queued"
    <3>1. queue[i + 1] # f /\ queue[i + 1] \in Jobs /\ job[queue[i + 1]] = "queued"
      BY <1>1, <1>4 DEF QueueInv, BuildTypeOK
    <3> QED BY <1>1, <1>2, <1>4, <3>1 DEF BuildTypeOK
  <2>2. ASSUME NEW i \in DOMAIN queue', NEW j \in DOMAIN queue', queue'[i] = queue'[j]
        PROVE  i = j
    <3>1. i + 1 = j + 1
      BY <1>1, <1>4, <2>2 DEF QueueInv
    <3>2. i \in Nat /\ j \in Nat
      BY <1>4
    <3> QED BY <3>1, <3>2
  <2> QED BY <2>1, <2>2 DEF QueueInv
<1>9. ParserInv' /\ AstInv' /\ AskedInv'
  BY <1>3, IdleKeeps DEF BuildInv, OtherThanJob
<1> QED BY <1>7, <1>8, <1>9 DEF BuildInv, PoolInv

LEMMA PoolStepInv ==
  ASSUME BuildInv, PoolStep
  PROVE  BuildInv'
BY CacheHitInv, CopyCachedInv, WriteSnippetInv, RecordSnippetInv, CommitInv, PublishInv,
   FinishJobInv, JobThrowsInv, StartJobInv DEF PoolStep

-----------------------------------------------------------------------------
(* The main thread.                                                        *)

\* Steps to and from which nothing is promised about the loops.
Early == Steps \ {"rest", "externs", "shutdown", "done"}

\* The list the main thread iterates over is next to be extracted.
Fresh(files) ==
  files \subseteq (TypeScript \cup Snippet) \ Extern /\ files \cap extractedFiles = {}

\* A step that extracts nothing and takes no job.
Moves ==
  /\ UNCHANGED <<extractedFiles, snippets, queue, job, trap, seenCode, exists>>
  /\ step # "done" /\ step' \in Steps
  /\ tsconfigIndex' \in Nat \ {0} /\ todo' \in SUBSET File

LEMMA MovesKeep ==
  ASSUME PoolInv, Moves, status' \in {Running, 0, 1, -1},
         step \in Parsing =>
           (step' \in Parsing /\ todo' = todo) \/ (step' = "done" /\ status' = 1),
         TodoInv', EndInv', CoverInv'
  PROVE  PoolInv'
<1> USE DEF Moves
<1>1. BuildTypeOK'
  BY DEF PoolInv, BuildTypeOK
<1>2. QueueInv' /\ JobInv'
  BY DEF PoolInv, QueueInv, JobInv
<1>3. SeenInv'
  BY DEF PoolInv, SeenInv, Counts
<1>4. NotedInv'
  <2>1. ASSUME NEW f \in Jobs \cap extractedFiles' \cap exists'
        PROVE  \/ trap'[f] # NoTrap \/ job'[f] \notin {"none", "done"}
               \/ step' \in Parsing /\ IsNext(f)'
               \/ step' = "done" /\ status' = 1
    <3>1. \/ trap[f] # NoTrap \/ job[f] \notin {"none", "done"}
          \/ step \in Parsing /\ IsNext(f)
      BY DEF PoolInv, NotedInv
    <3>2. CASE step \in Parsing /\ IsNext(f)
      <4>1. CASE step' \in Parsing /\ todo' = todo
        BY <3>2, <4>1, SameNext
      <4> QED BY <3>2, <4>1
    <3> QED BY <3>1, <3>2
  <2> QED BY <2>1 DEF NotedInv
<1> QED BY <1>1, <1>2, <1>3, <1>4 DEF PoolInv

\* Most steps go between places where nothing is promised of the loops.
LEMMA EarlyMoves ==
  ASSUME PoolInv, Moves, UNCHANGED status, step \notin Parsing, step' \in Early \ Parsing,
         step' \in Listing =>
           \/ todo' = {}
           \/ Fresh(todo')
           \/ step \in Listing /\ todo' = todo
  PROVE  PoolInv'
<1>1. step' \in Steps \ (Parsing \cup {"rest", "externs", "shutdown", "done"})
  BY DEF Early
<1>2. TodoInv'
  BY <1>1 DEF TodoInv, PoolInv, Moves, Fresh
<1>3. EndInv' /\ CoverInv'
  BY <1>1 DEF EndInv, CoverInv, Completed
<1>4. status' \in {Running, 0, 1, -1}
  BY DEF PoolInv, BuildTypeOK
<1> QED BY <1>2, <1>3, <1>4, MovesKeep

\* An exception that ends the program.
LEMMA ExitMoves ==
  ASSUME PoolInv, Moves, ExitProgram(1)
  PROVE  PoolInv'
<1>1. step' = "done" /\ status' = 1
  BY DEF ExitProgram
<1>2. TodoInv' /\ EndInv' /\ CoverInv'
  BY <1>1 DEF TodoInv, EndInv, CoverInv, Completed, Listing, Parsing
<1> QED BY <1>1, <1>2, MovesKeep

\* A local step of the main thread leaves the parser as it is.
LEMMA GoKeeps ==
  ASSUME BuildInv, NEW from, NEW to, Go(from, to), to # "parsing"
  PROVE  /\ ParserInv' /\ AstInv' /\ AskedInv' /\ UNCHANGED <<exists, status>>
         /\ step = from /\ step' = to
<1>1. UNCHANGED parserVars /\ step = from /\ step' = to /\ UNCHANGED status
  BY DEF Go, At
<1>2. exists' = exists
  BY <1>1 DEF parserVars
<1> QED BY <1>1, <1>2, IdleKeeps DEF BuildInv

\* A call of the parser.
LEMMA AskKeeps ==
  ASSUME BuildInv, NEW from \in Steps \ {"done"}, NEW c \in Call, NEW to \in Steps,
         AskParser(from, c, to), UNCHANGED extractedFiles,
         to = "parsing" => c.command = "parse"
  PROVE  /\ ParserInv' /\ AstInv' /\ AskedInv' /\ Moves
         /\ step = from /\ step' = to /\ UNCHANGED <<status, todo>>
<1>1. Invoke(c) /\ step = from /\ step' = to
  BY DEF AskParser, At
<1>2. UNCHANGED <<tsconfigIndex, todo, snippets, queue, job, seenCode, trap, status>>
  BY DEF AskParser, poolVars
<1>3. ParserInv' /\ AstInv' /\ AskedInv' /\ UNCHANGED exists
  BY <1>1, InvokeKeeps DEF BuildInv
<1>4. Moves
  BY <1>1, <1>2, <1>3 DEF Moves, BuildInv, BuildTypeOK
<1> QED BY <1>1, <1>2, <1>3, <1>4

LEMMA Places ==
  /\ Listing \cup Parsing \subseteq Early /\ Listing \cap Parsing = {}
  /\ Early \subseteq Steps \ {"done"}
BY DEF Early, Listing, Parsing, Steps

\* The calls that concern projects or the whole process.
LEMMA AsksACall ==
  ASSUME BuildInv,
         GetOwnFiles \/ OpenTsConfig \/ Announce \/ CloseTsConfig \/ GetTypeTable
  PROVE  \E from \in {"own", "open", "prepare", "parse"}, c \in Call,
            to \in {"owning", "opening", "preparing", "closing", "typing"} :
           /\ AskParser(from, c, to) /\ (to = "preparing" => from = "prepare")
           /\ c.command = CallAt[to] /\ (to = "preparing" => c.files = Sorted(todo))
<1>1. /\ CallAt["owning"] = "get-own-files" /\ CallAt["opening"] = "open-project"
      /\ CallAt["preparing"] = "prepare-files" /\ CallAt["closing"] = "close-project"
      /\ CallAt["typing"] = "get-type-table"
  BY DEF CallAt, Waiting
<1>2. CASE GetOwnFiles \/ OpenTsConfig \/ CloseTsConfig
  <2>1. tsconfigIndex \in DOMAIN TsConfigs
    BY <1>2, AutoBuildAssumption
       DEF GetOwnFiles, OpenTsConfig, CloseTsConfig, InProject, AutoBuildAssumption,
           BuildInv, BuildTypeOK
  <2>2. ThisTsConfig \in Project
    BY <2>1, AutoBuildAssumption DEF AutoBuildAssumption, ThisTsConfig
  <2>3. \A command \in ProjectCommands :
          [command |-> command, tsConfig |-> ThisTsConfig] \in Call
    BY <2>2 DEF Call, Request, ProjectCommands
  <2>4. {"get-own-files", "open-project", "close-project"} = ProjectCommands
    BY DEF ProjectCommands
  <2>5. CASE GetOwnFiles
    BY <1>1, <2>3, <2>4, <2>5 DEF GetOwnFiles
  <2>6. CASE OpenTsConfig
    BY <1>1, <2>3, <2>4, <2>6 DEF OpenTsConfig
  <2>7. CASE CloseTsConfig
    BY <1>1, <2>3, <2>4, <2>7 DEF CloseTsConfig
  <2> QED BY <1>2, <2>5, <2>6, <2>7
<1>3. CASE Announce
  <2>1. step = "prepare"
    BY <1>3 DEF Announce, AskParser, At
  <2>2. todo \in SUBSET (TypeScript \cup Snippet)
    BY <2>1 DEF BuildInv, TodoInv, Listing
  <2>3. Sorted(todo) \in Batches
    BY <2>2, AutoBuildAssumption DEF AutoBuildAssumption
  <2>4. [command |-> "prepare-files", files |-> Sorted(todo)] \in Call
    BY <2>3 DEF Call, Request
  <2> QED BY <1>1, <1>3, <2>4 DEF Announce
<1>4. CASE GetTypeTable
  <2>1. [command |-> "get-type-table"] \in Call
    BY DEF Call, Request, Commands
  <2> QED BY <1>1, <1>4, <2>1 DEF GetTypeTable
<1> QED BY <1>2, <1>3, <1>4

LEMMA AskSteps ==
  ASSUME BuildInv,
         GetOwnFiles \/ OpenTsConfig \/ Announce \/ CloseTsConfig \/ GetTypeTable
  PROVE  BuildInv'
<1>1. PICK from \in {"own", "open", "prepare", "parse"}, c \in Call,
           to \in {"owning", "opening", "preparing", "closing", "typing"} :
        AskParser(from, c, to) /\ (to = "preparing" => from = "prepare")
  BY AsksACall
<1>2. UNCHANGED extractedFiles
  BY DEF GetOwnFiles, OpenTsConfig, Announce, CloseTsConfig, GetTypeTable
<1>3. /\ from \in Steps \ (Parsing \cup {"done"}) /\ to \in Early \ Parsing /\ to # "parsing"
      /\ to \in Listing => to = "preparing" /\ from \in Listing
  BY <1>1 DEF Steps, Early, Listing, Parsing
<1>4. /\ ParserInv' /\ AstInv' /\ AskedInv' /\ Moves
      /\ step = from /\ step' = to /\ UNCHANGED <<status, todo>>
  BY <1>1, <1>2, <1>3, AskKeeps, Places
<1>5. PoolInv'
  BY <1>3, <1>4, EarlyMoves DEF BuildInv, PoolInv
<1> QED BY <1>4, <1>5 DEF BuildInv, PoolInv

\* From reading the next file to parsing it, if it is still there.
LEMMA ParseFileInv ==
  ASSUME BuildInv, ParseFile
  PROVE  BuildInv'
<1>1. PICK f \in todo : IsNext(f) /\ step = "read" /\ UNCHANGED extractedFiles /\
        (\/ AskParser("read", [command |-> "parse", file |-> f], "parsing")
         \/ /\ ExitProgram(1)
            /\ UNCHANGED <<parserVars, tsconfigIndex, todo, explicitlyIncluded,
                           snippets, poolVars, trap, skipped>>)
  BY DEF ParseFile
<1>2. f \in File
  BY DEF BuildInv, BuildTypeOK
<1>3. "read" \in Steps \ {"done"} /\ "parsing" \in Steps
  BY DEF Steps
<1>4. CASE AskParser("read", [command |-> "parse", file |-> f], "parsing")
  <2>1. [command |-> "parse", file |-> f] \in Call
    BY <1>2 DEF Call, Request
  <2>2. /\ ParserInv' /\ AstInv' /\ AskedInv' /\ Moves /\ step' = "parsing"
        /\ UNCHANGED <<status, todo>>
    BY <1>1, <1>3, <1>4, <2>1, AskKeeps
  <2>3. TodoInv'
    <3>1. \A g : IsNext(g)' <=> IsNext(g)
      BY <2>2, SameNext
    <3> QED BY <1>1, <2>2, <3>1 DEF BuildInv, TodoInv, Moves, Listing, Parsing
  <2>4. EndInv' /\ CoverInv'
    BY <2>2 DEF EndInv, CoverInv, Completed
  <2>5. step' \in Parsing /\ todo' = todo /\ status' \in {Running, 0, 1, -1}
    BY <2>2 DEF BuildInv, BuildTypeOK, Parsing
  <2>6. PoolInv /\ Moves
    BY <2>2 DEF BuildInv, PoolInv
  <2>7. PoolInv'
    BY <2>3, <2>4, <2>5, <2>6, MovesKeep
  <2> QED BY <2>2, <2>7 DEF BuildInv, PoolInv
<1>5. CASE /\ ExitProgram(1)
           /\ UNCHANGED <<parserVars, tsconfigIndex, todo, explicitlyIncluded,
                          snippets, poolVars, trap, skipped>>
  <2>1. ParserInv' /\ AstInv' /\ AskedInv' /\ UNCHANGED exists
    BY <1>5, IdleKeeps DEF BuildInv, ExitProgram
  <2>2. Moves
    BY <1>1, <1>5, <2>1 DEF Moves, ExitProgram, poolVars, BuildInv, BuildTypeOK, Steps
  <2>3. PoolInv'
    BY <1>5, <2>2, ExitMoves DEF BuildInv, PoolInv
  <2> QED BY <2>1, <2>3 DEF BuildInv, PoolInv
<1> QED BY <1>1, <1>4, <1>5

LEMMA ParserThrewInv ==
  ASSUME BuildInv, ParserThrew
  PROVE  BuildInv'
<1>1. /\ step # "done"
      /\ UNCHANGED <<parserVars, tsconfigIndex, todo, extractedFiles, snippets, poolVars, trap>>
      /\ \/ ExitProgram(1)
         \/ step \notin Parsing /\ step' = "unwind" /\ UNCHANGED status
  BY DEF ParserThrew, Parsing
<1>2. ParserInv' /\ AstInv' /\ AskedInv' /\ UNCHANGED exists
  BY <1>1, IdleKeeps DEF BuildInv, ExitProgram
<1>3. Moves
  BY <1>1, <1>2 DEF Moves, ExitProgram, poolVars, BuildInv, BuildTypeOK, Steps
<1>4. PoolInv'
  <2>1. CASE ExitProgram(1)
    BY <1>3, <2>1, ExitMoves DEF BuildInv, PoolInv
  <2>2. CASE step \notin Parsing /\ step' = "unwind" /\ UNCHANGED status
    <3>1. step' \in Early \ Parsing /\ step' \notin Listing
      BY <2>2 DEF Early, Steps, Parsing, Listing
    <3> QED BY <1>3, <2>2, <3>1, EarlyMoves DEF BuildInv, PoolInv
  <2> QED BY <1>1, <2>1, <2>2
<1> QED BY <1>2, <1>4 DEF BuildInv, PoolInv

\* What a project is used for has not been extracted, and is TypeScript.
LEMMA ClaimedFresh ==
  ASSUME BuildInv, NEW own, NEW all
  PROVE  Fresh(Claimed(own, all)) /\ Claimed(own, all) \subseteq File
<1>1. Source \cap Extern = {} /\ snippets \subseteq Snippet /\ Source \subseteq File
  BY DEF Source, BuildInv, BuildTypeOK
<1> QED BY <1>1, Kinds DEF Claimed, Fresh, IsTypeScript

\* The local steps that are not a loop of their own.
LEMMA LocalSteps ==
  ASSUME BuildInv,
         VerifyInstallation \/ GotOwnFiles \/ OpenedTsConfig \/ Announced \/ ClosedTsConfig
           \/ RemainingFiles
  PROVE  BuildInv'
<1>1. PICK from \in {"verify", "owning", "opening", "preparing", "closing", "open", "typing"},
           to \in {"own", "open", "unwind", "prepare", "parse", "kill"} :
        /\ Go(from, to)
        /\ to \in Listing => Fresh(todo') \/ (from \in Listing /\ todo' = todo)
  <2>1. CASE VerifyInstallation \/ GotOwnFiles \/ ClosedTsConfig
    BY <2>1 DEF VerifyInstallation, GotOwnFiles, ClosedTsConfig, Listing
  <2>2. CASE OpenedTsConfig
    BY <2>2, ClaimedFresh DEF OpenedTsConfig, Fresh
  <2>3. CASE Announced
    BY <2>3 DEF Announced, Listing
  <2>4. CASE RemainingFiles
    <3>1. Fresh(todo')
      BY <2>4, Kinds DEF RemainingFiles, Fresh, IsTypeScript, Source
    <3> QED BY <2>4, <3>1 DEF RemainingFiles
  <2> QED BY <2>1, <2>2, <2>3, <2>4
<1>2. UNCHANGED <<extractedFiles, snippets, poolVars, trap>>
  BY DEF VerifyInstallation, GotOwnFiles, OpenedTsConfig, Announced, ClosedTsConfig, RemainingFiles
<1>3. tsconfigIndex' \in Nat \ {0} /\ todo' \in SUBSET File
  <2>1. CASE VerifyInstallation \/ GotOwnFiles \/ Announced \/ ClosedTsConfig
    BY <2>1 DEF VerifyInstallation, GotOwnFiles, Announced, ClosedTsConfig, BuildInv, BuildTypeOK
  <2>2. CASE OpenedTsConfig
    BY <2>2, ClaimedFresh DEF OpenedTsConfig, BuildInv, BuildTypeOK
  <2>3. CASE RemainingFiles
    BY <2>3 DEF RemainingFiles, BuildInv, BuildTypeOK, Source
  <2> QED BY <2>1, <2>2, <2>3
<1>4. /\ ParserInv' /\ AstInv' /\ AskedInv' /\ UNCHANGED <<exists, status>>
      /\ step = from /\ step' = to
  BY <1>1, GoKeeps
<1>5. step # "done" /\ step' \in Steps /\ step \notin Parsing /\ step' \in Early \ Parsing
  BY <1>4 DEF Steps, Early, Parsing
<1>6. Moves
  BY <1>2, <1>3, <1>4, <1>5 DEF Moves, poolVars
<1>7. PoolInv'
  BY <1>1, <1>4, <1>5, <1>6, EarlyMoves DEF BuildInv, PoolInv, Fresh
<1> QED BY <1>4, <1>7 DEF BuildInv, PoolInv

\* The places in which the promise about the loops changes.
LEMMA JoinHtmlInv ==
  ASSUME BuildInv, JoinHtml
  PROVE  BuildInv'
<1>1. PICK to \in {"verify", "rest"} :
        Go("html", to) /\ todo' = IF to = "verify" THEN {} ELSE Source
  BY DEF JoinHtml
<1>2. /\ ParserInv' /\ AstInv' /\ AskedInv' /\ UNCHANGED <<exists, status>>
      /\ step = "html" /\ step' = to
  BY <1>1, GoKeeps
<1>3. Moves
  BY <1>1, <1>2 DEF JoinHtml, Moves, poolVars, BuildInv, BuildTypeOK, Steps, Source
<1>4. TodoInv' /\ EndInv' /\ step \notin Parsing /\ status' \in {Running, 0, 1, -1}
  BY <1>2 DEF TodoInv, EndInv, Completed, Listing, Parsing, BuildInv, BuildTypeOK
<1>5. CoverInv'
  BY <1>1, <1>2 DEF CoverInv, Completed
<1>6. PoolInv'
  BY <1>3, <1>4, <1>5, MovesKeep DEF BuildInv, PoolInv
<1> QED BY <1>2, <1>6 DEF BuildInv, PoolInv

LEMMA StopParserInv ==
  ASSUME BuildInv, StopParser
  PROVE  BuildInv'
<1>1. /\ KillProcess /\ step \in {"kill", "parse"} /\ step' = "rest" /\ todo' = Source
      /\ UNCHANGED <<tsconfigIndex, extractedFiles, snippets, poolVars, trap, status>>
  BY DEF StopParser, At
<1>2. ParserInv' /\ AstInv' /\ AskedInv' /\ UNCHANGED exists
  <2>1. ParserInv'
    BY <1>1, StepInv DEF Next, BuildInv
  <2>2. result' = NoResult /\ exists' = exists
    BY <1>1 DEF KillProcess
  <2> QED BY <1>1, <2>1, <2>2 DEF AstInv, AskedInv
<1>3. Moves
  BY <1>1, <1>2 DEF Moves, poolVars, BuildInv, BuildTypeOK, Steps, Source
<1>4. TodoInv' /\ EndInv' /\ step \notin Parsing /\ status' \in {Running, 0, 1, -1}
  BY <1>1 DEF TodoInv, EndInv, Completed, Listing, Parsing, BuildInv, BuildTypeOK
<1>5. CoverInv'
  BY <1>1 DEF CoverInv, Completed
<1>6. PoolInv'
  BY <1>3, <1>4, <1>5, MovesKeep DEF BuildInv, PoolInv
<1> QED BY <1>2, <1>6 DEF BuildInv, PoolInv

LEMMA EndOfLoops ==
  ASSUME BuildInv, EndOfSource \/ EndOfExterns
  PROVE  BuildInv'
<1>1. PICK from \in {"rest", "externs"}, to \in {"externs", "shutdown"} :
        /\ Go(from, to) /\ todo = {} /\ (from = "rest" <=> to = "externs")
        /\ todo' = IF to = "externs" THEN Extern ELSE todo
  BY DEF EndOfSource, EndOfExterns
<1>2. /\ ParserInv' /\ AstInv' /\ AskedInv' /\ UNCHANGED <<exists, status>>
      /\ step = from /\ step' = to
  BY <1>1, GoKeeps
<1>3. UNCHANGED <<tsconfigIndex, extractedFiles, snippets, poolVars, trap>>
  BY DEF EndOfSource, EndOfExterns
<1>4. Moves
  BY <1>1, <1>2, <1>3, Kinds DEF Moves, poolVars, BuildInv, BuildTypeOK, Steps
<1>5. TodoInv' /\ EndInv' /\ step \notin Parsing /\ status' \in {Running, 0, 1, -1}
  BY <1>2 DEF TodoInv, EndInv, Completed, Listing, Parsing, BuildInv, BuildTypeOK
<1>6. CoverInv'
  <2>1. Derived' = Derived
    BY <1>3 DEF Derived, IsDerived
  <2> QED BY <1>1, <1>2, <1>3, <2>1 DEF CoverInv, Completed, BuildInv
<1>7. PoolInv'
  BY <1>4, <1>5, <1>6, MovesKeep DEF BuildInv, PoolInv
<1> QED BY <1>2, <1>7 DEF BuildInv, PoolInv

\* The exit status is computed when every job has ended.
LEMMA FinishInv ==
  ASSUME BuildInv, Finish
  PROVE  BuildInv'
<1>1. /\ AllDone /\ step \in {"shutdown", "unwind"} /\ step' = "done"
      /\ status' = IF step = "unwind" THEN 1 ELSE IF seenCode THEN 0 ELSE -1
      /\ UNCHANGED <<parserVars, tsconfigIndex, todo, extractedFiles, snippets, poolVars, trap>>
  BY DEF Finish, At, ExitProgram
<1>2. ParserInv' /\ AstInv' /\ AskedInv' /\ UNCHANGED exists
  BY <1>1, IdleKeeps DEF BuildInv
<1>3. Moves
  BY <1>1, <1>2 DEF Moves, poolVars, BuildInv, BuildTypeOK, Steps
<1>4. TodoInv' /\ step \notin Parsing /\ status' \in {Running, 0, 1, -1}
  BY <1>1 DEF TodoInv, Listing, Parsing
<1>5. EndInv'
  <2>1. AllDone'
    BY <1>1 DEF AllDone, poolVars
  <2>2. seenCode' = seenCode
    BY <1>1 DEF poolVars
  <2>3. CASE seenCode
    BY <1>1, <2>1, <2>2, <2>3 DEF EndInv, Completed
  <2>4. CASE ~seenCode
    BY <1>1, <2>1, <2>2, <2>4 DEF EndInv, Completed
  <2> QED BY <2>3, <2>4
<1>6. CoverInv'
  <2>1. Derived' = Derived
    BY <1>1 DEF Derived, IsDerived
  <2> QED BY <1>1, <2>1 DEF CoverInv, Completed, BuildInv
<1>7. PoolInv'
  BY <1>3, <1>4, <1>5, <1>6, MovesKeep DEF BuildInv, PoolInv
<1> QED BY <1>2, <1>7 DEF BuildInv, PoolInv

-----------------------------------------------------------------------------
(* The iterations over a list.                                             *)

\* What the body of one iteration of extractFiles makes of the file f.
Submits(f, selected) ==
  /\ f \in todo /\ todo' = todo \ {f}
  /\ \/ /\ f \in extractedFiles \/ f \notin selected
        /\ UNCHANGED <<extractedFiles, queue, job>>
     \/ /\ f \notin extractedFiles /\ f \in selected
        /\ extractedFiles' = extractedFiles \cup {f}
        /\ queue' = Append(queue, f)
        /\ job' = [job EXCEPT ![f] = "queued"]

\* A file is submitted once, and by then nobody has touched it.
LEMMA Submitted ==
  ASSUME PoolInv, NEW selected \in SUBSET Jobs, NEW f, Submits(f, selected),
         step \notin Listing \cup Parsing \cup {"done"},
         UNCHANGED <<step, status, tsconfigIndex, snippets, trap, seenCode, exists>>
  PROVE  /\ BuildTypeOK' /\ QueueInv' /\ JobInv' /\ TodoInv' /\ SeenInv' /\ EndInv' /\ NotedInv'
         /\ extractedFiles \subseteq extractedFiles'
         /\ f \in selected => f \in extractedFiles'
<1>1. /\ BuildTypeOK /\ QueueInv /\ JobInv /\ SeenInv /\ NotedInv
      /\ TodoInv' /\ EndInv'
  BY DEF PoolInv, TodoInv, EndInv, Completed
<1>2. CASE UNCHANGED <<extractedFiles, queue, job>> /\ (f \in extractedFiles \/ f \notin selected)
  <2>1. BuildTypeOK'
    BY <1>1, <1>2 DEF BuildTypeOK, Submits
  <2>2. QueueInv' /\ JobInv' /\ SeenInv'
    BY <1>1, <1>2 DEF QueueInv, JobInv, SeenInv, Counts
  <2>3. NotedInv'
    BY <1>1, <1>2 DEF NotedInv
  <2> QED BY <1>1, <1>2, <2>1, <2>2, <2>3
<1>3. CASE /\ f \notin extractedFiles /\ f \in selected
           /\ extractedFiles' = extractedFiles \cup {f} /\ queue' = Append(queue, f)
           /\ job' = [job EXCEPT ![f] = "queued"]
  <2>1. f \in Jobs /\ f \in File /\ job[f] = "none" /\ trap[f] = NoTrap
    BY <1>1, <1>3, Kinds DEF JobInv
  <2>2. /\ job'[f] = "queued" /\ \A g \in Jobs : g # f => job'[g] = job[g]
    BY <1>1, <1>3, <2>1 DEF BuildTypeOK
  <2>3. BuildTypeOK'
    <3>1. "queued" \in JobPlace
      BY DEF JobPlace, Unwritten
    <3> QED BY <1>1, <1>3, <2>1, <3>1 DEF BuildTypeOK, Submits
  <2>4. QueueInv'
    <3>1. /\ DOMAIN queue' = 1..(Len(queue) + 1) /\ DOMAIN queue = 1..Len(queue) /\ Len(queue) \in Nat
          /\ queue'[Len(queue) + 1] = f
          /\ \A i \in DOMAIN queue : queue'[i] = queue[i] /\ queue[i] \in Jobs
      BY <1>1, <1>3, <2>1 DEF BuildTypeOK
    <3>2. \A i \in DOMAIN queue : queue[i] # f
      BY <1>1, <2>1 DEF QueueInv
    <3>3. \A i \in DOMAIN queue' : job'[queue'[i]] = "queued"
      BY <1>1, <2>2, <3>1, <3>2 DEF QueueInv
    <3>4. ASSUME NEW i \in DOMAIN queue', NEW j \in DOMAIN queue', queue'[i] = queue'[j]
          PROVE  i = j
      <4>1. CASE i \in DOMAIN queue /\ j \in DOMAIN queue
        BY <1>1, <3>1, <3>4, <4>1 DEF QueueInv
      <4>2. CASE i = Len(queue) + 1 \/ j = Len(queue) + 1
        BY <3>1, <3>2, <3>4, <4>2
      <4> QED BY <3>1, <4>1, <4>2
    <3> QED BY <3>3, <3>4 DEF QueueInv
  <2>5. JobInv'
    BY <1>1, <1>3, <2>1, <2>2 DEF JobInv, Uncounted
  <2>6. SeenInv'
    <3>1. ~Counts(f) /\ ~Counts(f)'
      BY <2>1, Values DEF Counts
    <3>2. \A g \in File : g # f => (Counts(g)' <=> Counts(g))
      BY <2>2 DEF Counts
    <3>3. (\E g \in File \ Extern : Counts(g)') <=> (\E g \in File \ Extern : Counts(g))
      BY <3>1, <3>2
    <3> QED BY <1>1, <3>3 DEF SeenInv
  <2>7. NotedInv'
    BY <1>1, <1>3, <2>1, <2>2 DEF NotedInv
  <2> QED BY <1>1, <1>3, <2>3, <2>4, <2>5, <2>6, <2>7
<1> QED BY <1>2, <1>3 DEF Submits

LEMMA SubmitInv ==
  ASSUME BuildInv, SubmitHtml \/ SubmitRest \/ SubmitExtern
  PROVE  BuildInv'
<1>1. PICK at \in {"html", "rest", "externs"}, selected \in SUBSET Jobs, f \in todo :
        /\ Go(at, at) /\ Submits(f, selected)
        /\ at = "rest" => selected = {g \in Source : ~IsDerived(g)}
        /\ at = "externs" => selected = Extern
        /\ UNCHANGED <<tsconfigIndex, snippets, trap, seenCode>>
  <2>1. CASE SubmitHtml
    <3>1. SubmitFile("html", Html) /\ Html \in SUBSET Jobs
      BY <2>1, Kinds DEF SubmitHtml
    <3> QED BY <3>1 DEF SubmitFile, Submits
  <2>2. CASE SubmitRest
    <3>1. /\ SubmitFile("rest", {g \in Source : ~IsDerived(g)})
          /\ {g \in Source : ~IsDerived(g)} \in SUBSET Jobs
      BY <2>2, Kinds DEF SubmitRest
    <3> QED BY <3>1 DEF SubmitFile, Submits
  <2>3. CASE SubmitExtern
    <3>1. SubmitFile("externs", Extern) /\ Extern \in SUBSET Jobs
      BY <2>3, Kinds DEF SubmitExtern
    <3> QED BY <3>1 DEF SubmitFile, Submits
  <2> QED BY <2>1, <2>2, <2>3
<1>2. /\ ParserInv' /\ AstInv' /\ AskedInv' /\ UNCHANGED <<exists, status>>
      /\ step = at /\ step' = at
  BY <1>1, GoKeeps
<1>3. step \notin Listing \cup Parsing \cup {"done"} /\ UNCHANGED step
  BY <1>2 DEF Listing, Parsing
<1>4. /\ BuildTypeOK' /\ QueueInv' /\ JobInv' /\ TodoInv' /\ SeenInv' /\ EndInv' /\ NotedInv'
      /\ extractedFiles \subseteq extractedFiles'
      /\ f \in selected => f \in extractedFiles'
  BY <1>1, <1>2, <1>3, Submitted DEF BuildInv, PoolInv
<1>5. CoverInv'
  <2>1. Derived \subseteq Derived' /\ todo' = todo \ {f}
    BY <1>1, <1>4, SameDerived DEF Submits
  <2>2. CASE at = "html"
    BY <1>2, <2>2 DEF CoverInv, Completed
  <2>3. CASE at = "rest"
    <3>1. f \in Source => f \in extractedFiles' \cup Derived
      BY <1>1, <1>4, <2>3, Kinds DEF Derived
    <3> QED BY <1>2, <1>4, <2>1, <2>3, <3>1 DEF CoverInv, Completed, BuildInv
  <2>4. CASE at = "externs"
    <3>1. f \in Extern => f \in extractedFiles'
      BY <1>1, <1>4, <2>4
    <3> QED BY <1>2, <1>4, <2>1, <2>4, <3>1 DEF CoverInv, Completed, BuildInv
  <2> QED BY <2>2, <2>3, <2>4
<1> QED BY <1>2, <1>4, <1>5 DEF BuildInv

\* The main thread notes the next TypeScript file as extracted, or skips it.
LEMMA NextTypeScriptFileInv ==
  ASSUME BuildInv, NextTypeScriptFile
  PROVE  BuildInv'
<1>1. PICK f \in todo :
        /\ IsNext(f) /\ extractedFiles' = extractedFiles \cup {f}
        /\ \/ f \in exists /\ Go("parse", "read") /\ UNCHANGED todo
           \/ f \notin exists /\ Go("parse", "parse") /\ todo' = todo \ {f}
  BY DEF NextTypeScriptFile
<1>2. UNCHANGED <<tsconfigIndex, snippets, queue, job, seenCode, trap>>
  BY DEF NextTypeScriptFile, poolVars
<1>3. /\ ParserInv' /\ AstInv' /\ AskedInv' /\ UNCHANGED <<exists, status>>
      /\ step = "parse" /\ step' \in {"read", "parse"}
  BY <1>1, GoKeeps
<1>4. /\ step \in Listing /\ step \notin Parsing /\ (step' = "read" => step' \notin Listing)
      /\ (step' = "read" => step' \in Parsing) /\ (step' = "parse" => step' \notin Parsing)
  BY <1>3 DEF Listing, Parsing
<1>5. /\ todo \subseteq (TypeScript \cup Snippet) \ Extern /\ todo \cap extractedFiles = {}
      /\ BuildTypeOK /\ JobInv /\ NotedInv
  BY <1>4 DEF BuildInv, TodoInv
<1>6. f \in File /\ trap[f] = NoTrap /\ (f \in Jobs => job[f] = "none")
  BY <1>5 DEF BuildTypeOK, JobInv
<1>7. BuildTypeOK'
  BY <1>1, <1>2, <1>3, <1>5, <1>6 DEF BuildTypeOK, Steps
<1>8. QueueInv' /\ JobInv' /\ SeenInv'
  BY <1>1, <1>2 DEF BuildInv, QueueInv, JobInv, SeenInv, Counts
<1>9. TodoInv'
  <2>1. CASE step' = "read" /\ UNCHANGED todo
    <3>1. \A g : IsNext(g)' <=> IsNext(g)
      BY <2>1, SameNext
    <3>2. \A g \in todo : IsNext(g) <=> g = f
      BY <1>1, <1>5, NextUnique DEF BuildTypeOK
    <3> QED BY <1>1, <1>2, <1>4, <1>5, <1>6, <2>1, <3>1, <3>2 DEF TodoInv
  <2>2. CASE step' = "parse" /\ todo' = todo \ {f}
    BY <1>1, <1>4, <1>5, <2>2 DEF TodoInv
  <2> QED BY <1>1, <2>1, <2>2 DEF Go
<1>10. NotedInv'
  <2>1. ASSUME NEW g \in Jobs \cap extractedFiles' \cap exists', g # f
        PROVE  trap'[g] # NoTrap \/ job'[g] \notin {"none", "done"}
    BY <1>1, <1>2, <1>3, <1>4, <1>5, <2>1 DEF NotedInv
  <2>2. ASSUME f \in exists'
        PROVE  step' \in Parsing /\ IsNext(f)'
    <3>1. step' = "read" /\ UNCHANGED todo
      BY <1>1, <1>3, <2>2 DEF Go
    <3> QED BY <1>1, <1>4, <3>1, SameNext
  <2> QED BY <2>1, <2>2 DEF NotedInv
<1>11. EndInv' /\ CoverInv'
  BY <1>3 DEF EndInv, CoverInv, Completed
<1> QED BY <1>3, <1>7, <1>8, <1>9, <1>10, <1>11 DEF BuildInv

\* The parser's answer becomes a trap file of the main thread's own.
LEMMA ParsedFileInv ==
  ASSUME BuildInv, ParsedFile
  PROVE  BuildInv'
<1>1. PICK f \in todo :
        /\ IsNext(f) /\ step = "parsing" /\ Answered("parsing")
        /\ UNCHANGED <<tsconfigIndex, extractedFiles, snippets, queue, job>>
        /\ \/ /\ Go("parsing", "parse")
              /\ trap' = [trap EXCEPT ![f] = result.response.project]
              /\ seenCode' = (seenCode \/ f \in HasCode)
              /\ todo' = todo \ {f}
           \/ ExitProgram(1) /\ UNCHANGED <<parserVars, trap, seenCode, todo>>
  BY DEF ParsedFile, Answered, At
<1>2. CASE ExitProgram(1) /\ UNCHANGED <<parserVars, trap, seenCode, todo>>
  <2>1. ParserInv' /\ AstInv' /\ AskedInv' /\ UNCHANGED exists
    BY <1>2, IdleKeeps DEF BuildInv, ExitProgram
  <2>2. Moves
    BY <1>1, <1>2, <2>1 DEF Moves, ExitProgram, BuildInv, BuildTypeOK, Steps
  <2>3. PoolInv'
    BY <1>2, <2>2, ExitMoves DEF BuildInv, PoolInv
  <2> QED BY <2>1, <2>3 DEF BuildInv, PoolInv
<1>3. CASE /\ Go("parsing", "parse")
           /\ trap' = [trap EXCEPT ![f] = result.response.project]
           /\ seenCode' = (seenCode \/ f \in HasCode)
           /\ todo' = todo \ {f}
  <2>1. result.response.project \in Project \cup {NoProject}
    <3>1. pc = "idle" /\ result # NoResult /\ result.outcome = "ok"
          /\ result.call.command = "parse"
      BY <1>1 DEF Answered, At, BuildInv, AskedInv
    <3>2. result.response \in Ast
      BY <3>1 DEF BuildInv, AstInv
    <3> QED BY <3>2 DEF Ast
  <2>2. /\ ParserInv' /\ AstInv' /\ AskedInv' /\ UNCHANGED <<exists, status>> /\ step' = "parse"
    BY <1>3, GoKeeps
  <2>3. /\ step \in Parsing /\ step' \in Listing /\ step' \notin Parsing /\ step \notin Listing
    BY <1>1, <2>2 DEF Listing, Parsing
  <2>4. /\ f \in extractedFiles /\ trap[f] = NoTrap /\ (f \in Jobs => job[f] = "none")
        /\ todo \subseteq (TypeScript \cup Snippet) \ Extern
        /\ \A g \in todo : ~IsNext(g) => g \notin extractedFiles
    BY <1>1, <2>3 DEF BuildInv, TodoInv
  <2>5. /\ BuildTypeOK /\ JobInv /\ SeenInv /\ NotedInv /\ f \in File
    BY DEF BuildInv, BuildTypeOK
  <2>6. /\ trap'[f] = result.response.project /\ trap'[f] \notin {NoTrap, "cached"}
        /\ \A g \in File : g # f => trap'[g] = trap[g]
    BY <1>3, <2>1, <2>5, AutoBuildAssumption DEF BuildTypeOK, AutoBuildAssumption
  <2>7. BuildTypeOK'
    BY <1>1, <1>3, <2>1, <2>2, <2>5 DEF BuildTypeOK, Steps
  <2>8. QueueInv' /\ JobInv'
    BY <1>1, <2>4, <2>5, <2>6, Kinds DEF BuildInv, QueueInv, JobInv, Unwritten, Uncounted
  <2>9. TodoInv'
    <3>1. \A g \in todo : g # f => ~IsNext(g)
      BY <1>1, <2>5, NextUnique DEF BuildTypeOK
    <3> QED BY <1>1, <1>3, <2>3, <2>4, <3>1 DEF TodoInv
  <2>10. SeenInv'
    <3>1. ~Counts(f)
      BY <2>4, Values DEF Counts
    <3>2. Counts(f)' <=> f \in HasCode
      BY <1>1, <2>4, <2>6 DEF Counts, Uncounted
    <3>3. \A g \in File : g # f => (Counts(g)' <=> Counts(g))
      BY <1>1, <2>6 DEF Counts
    <3>4. (\E g \in File \ Extern : Counts(g)')
            <=> (\E g \in File \ Extern : Counts(g)) \/ f \in HasCode
      BY <2>4, <2>5, <3>1, <3>2, <3>3
    <3> QED BY <1>3, <2>5, <3>4 DEF SeenInv
  <2>11. NotedInv'
    <3>1. ASSUME NEW g \in Jobs \cap extractedFiles' \cap exists', g # f
          PROVE  trap'[g] # NoTrap \/ job'[g] \notin {"none", "done"}
      <4>1. ~IsNext(g)
        BY <1>1, <2>5, <3>1, NextUnique DEF BuildTypeOK
      <4> QED BY <1>1, <2>2, <2>5, <2>6, <3>1, <4>1, Kinds DEF NotedInv
    <3> QED BY <2>6, <3>1 DEF NotedInv
  <2>12. EndInv' /\ CoverInv'
    BY <2>2 DEF EndInv, CoverInv, Completed
  <2> QED BY <2>2, <2>7, <2>8, <2>9, <2>10, <2>11, <2>12 DEF BuildInv
<1> QED BY <1>1, <1>2, <1>3

LEMMA MainStepInv ==
  ASSUME BuildInv, MainStep
  PROVE  BuildInv'
BY AskSteps, ParseFileInv, ParserThrewInv, LocalSteps, JoinHtmlInv, StopParserInv, EndOfLoops,
   FinishInv, SubmitInv, NextTypeScriptFileInv, ParsedFileInv DEF MainStep

-----------------------------------------------------------------------------
(* Everything else, and the theorems.                                      *)

\* Nobody but the process, the user or another process on the cache moves.
LEMMA OthersInv ==
  ASSUME BuildInv, ParserInv', AstInv', AskedInv', exists' \subseteq exists,
         UNCHANGED <<step, tsconfigIndex, todo, extractedFiles, snippets, queue, job, trap,
                     seenCode, status>>
  PROVE  BuildInv'
<1>1. BuildTypeOK' /\ QueueInv' /\ JobInv' /\ SeenInv'
  BY DEF BuildInv, BuildTypeOK, QueueInv, JobInv, SeenInv, Counts
<1>2. \A g : IsNext(g)' <=> IsNext(g)
  BY SameNext
<1>3. TodoInv' /\ NotedInv'
  BY <1>2 DEF BuildInv, TodoInv, NotedInv
<1>4. Derived' = Derived
  BY DEF Derived, IsDerived
<1>5. EndInv' /\ CoverInv'
  BY <1>4 DEF BuildInv, EndInv, CoverInv, Completed, AllDone
<1> QED BY <1>1, <1>3, <1>5 DEF BuildInv

LEMMA ParserStepInv ==
  ASSUME BuildInv, ParserStep
  PROVE  BuildInv'
<1>1. Internal /\ UNCHANGED buildVars
  BY DEF ParserStep
<1>2. ParserInv' /\ AstInv' /\ AskedInv' /\ exists' = exists
  BY <1>1, ParserKeeps DEF BuildInv, buildVars
<1> QED BY <1>1, <1>2, OthersInv DEF buildVars

LEMMA DeleteSourceInv ==
  ASSUME BuildInv, DeleteSource
  PROVE  BuildInv'
<1>1. PICK f \in File : DeleteFile(f) /\ UNCHANGED buildVars
  BY DEF DeleteSource
<1>2. ParserInv' /\ exists' \subseteq exists /\ UNCHANGED clientVars
  BY <1>1, DeleteFileInv DEF BuildInv, DeleteFile
<1>3. AstInv' /\ AskedInv'
  BY <1>1, <1>2 DEF BuildInv, AstInv, AskedInv, clientVars, buildVars
<1> QED BY <1>1, <1>2, <1>3, OthersInv DEF buildVars

LEMMA SameBuildInv ==
  ASSUME BuildInv,
         UNCHANGED <<parserVars, step, tsconfigIndex, todo, extractedFiles, snippets, queue,
                     job, trap, seenCode, status>>
  PROVE  BuildInv'
<1>1. ParserInv' /\ AstInv' /\ AskedInv' /\ exists' = exists
  BY IdleKeeps DEF BuildInv
<1> QED BY <1>1, OthersInv

LEMMA BuildStepInv ==
  ASSUME BuildInv, [BuildNext]_vars
  PROVE  BuildInv'
<1>1. CASE TrimCache
  BY <1>1, SameBuildInv DEF TrimCache, OtherThanJob
<1>2. CASE UNCHANGED vars
  BY <1>2, SameBuildInv DEF vars, buildVars
<1> QED BY <1>1, <1>2, MainStepInv, PoolStepInv, ParserStepInv, DeleteSourceInv
        DEF BuildNext, Ended

LEMMA BuildInitInv ==
  ASSUME BuildInit
  PROVE  BuildInv
<1> USE DEF BuildInit
<1>1. ParserInv
  BY ParserInitInv
<1>2. AstInv /\ AskedInv
  BY DEF ParserInit, AstInv, AskedInv
<1>3. BuildTypeOK
  <2>1. job \in [Jobs -> JobPlace]
    BY DEF JobPlace
  <2>2. trap \in [File -> Project \cup {NoProject, NoTrap, "cached", "extracted"}]
    OBVIOUS
  <2>3. queue \in Seq(Jobs)
    OBVIOUS
  <2>4. todo \in SUBSET File /\ extractedFiles \in SUBSET File /\ snippets \in SUBSET Snippet
    BY DEF Source
  <2>5. step \in Steps
    BY DEF Steps
  <2>6. tsconfigIndex \in Nat \ {0}
    OBVIOUS
  <2>7. seenCode \in BOOLEAN
    OBVIOUS
  <2>8. status \in {Running, 0, 1, -1}
    OBVIOUS
  <2> QED BY ONLY <2>1, <2>2, <2>3, <2>4, <2>5, <2>6, <2>7, <2>8 DEF BuildTypeOK
<1>4. QueueInv /\ JobInv /\ TodoInv
  BY Kinds DEF QueueInv, JobInv, TodoInv, Unwritten, Uncounted, Listing, Parsing
<1>5. SeenInv
  BY Values DEF SeenInv, Counts
<1>6. EndInv /\ NotedInv /\ CoverInv
  BY DEF EndInv, NotedInv, CoverInv, Completed
<1> QED BY <1>1, <1>2, <1>3, <1>4, <1>5, <1>6 DEF BuildInv

LEMMA BuildAlways == BuildSpec => []BuildInv
<1>1. BuildInit => BuildInv
  BY BuildInitInv
<1>2. BuildInv /\ [BuildNext]_vars => BuildInv'
  BY BuildStepInv
<1> QED BY <1>1, <1>2, PTL DEF BuildSpec

\* With the autobuilder as its caller the parser is never asked two things at
\* a time, and every AST is that of the file that was asked for.
THEOREM ParserIsUsedCorrectly == BuildSpec => []AnswerIsForRequestedFile
<1>1. BuildInv => AnswerIsForRequestedFile
  BY DEF BuildInv, ParserInv
<1> QED BY <1>1, BuildAlways, PTL

\* A run that has ended stays as it is.
LEMMA EndIsFinal ==
  ASSUME step = "done", [BuildNext]_vars
  PROVE  UNCHANGED vars /\ step' = "done"
<1>1. UNCHANGED vars
  BY DEF BuildNext, MainStep, PoolStep, SubmitHtml, SubmitRest, SubmitExtern, SubmitFile,
     JoinHtml, VerifyInstallation, GetOwnFiles, GotOwnFiles, OpenTsConfig, OpenedTsConfig, Announce,
     Announced, NextTypeScriptFile, ParseFile, ParsedFile, CloseTsConfig, ClosedTsConfig,
     GetTypeTable, RemainingFiles, StopParser, EndOfSource, EndOfExterns, ParserThrew, Finish,
     AskParser, Go, At, Answered, StartJob, CacheHit, CopyCached, CacheMiss, WriteSnippet,
     RecordSnippet, ExtractContents, Commit, Publish, FinishJob, JobThrows, JobStep, ParserStep,
     DeleteSource, TrimCache, Ended
<1> QED BY <1>1 DEF vars, buildVars

\* The other files have their turn when all TypeScript files have had theirs.
LEMMA StepRest ==
  ASSUME BuildInv, RestInv, [BuildNext]_vars
  PROVE  RestInv'
<1> DEFINE Others == Source \ (Html \cup TypeScript)
           Late == {"rest", "externs", "shutdown", "unwind", "done"}
<1>1. \A f \in File : DerivedFrom[f] \subseteq TypeScript
  BY AutoBuildAssumption DEF AutoBuildAssumption
<1>2. Others \cap (TypeScript \cup Snippet \cup Html \cup Extern) = {} /\ Others \subseteq File
  BY Kinds DEF Source
<1>3. \A f \in File : IsDerived(f) <=> DerivedFrom[f] \cap (extractedFiles \cap TypeScript) # {}
  BY <1>1 DEF IsDerived
<1>4. \A f \in File : IsDerived(f)' <=> DerivedFrom[f] \cap (extractedFiles \cap TypeScript)' # {}
  BY <1>1 DEF IsDerived
<1>5. ASSUME extractedFiles' \subseteq extractedFiles \cup TypeScript \cup Snippet \cup Html \cup Extern,
             \/ (extractedFiles \cap TypeScript)' = extractedFiles \cap TypeScript
             \/ step \notin Late,
             step \in Late => step' \in Late
      PROVE  \A f \in Others \cap extractedFiles' : step' \in Late /\ ~IsDerived(f)'
  BY <1>2, <1>3, <1>4, <1>5 DEF RestInv
<1>6. CASE step = "done"
  BY <1>6, EndIsFinal DEF RestInv, Working, IsDerived, vars, buildVars
<1>7. CASE PoolStep \/ ParserStep \/ DeleteSource \/ TrimCache \/ Ended \/ UNCHANGED vars
  <2>1. UNCHANGED <<tsconfigIndex, todo, extractedFiles>> /\ step' \in {step, "done"}
    BY <1>7 DEF PoolStep, StartJob, CacheHit, CopyCached, CacheMiss, WriteSnippet, RecordSnippet,
       ExtractContents, Commit, Publish, FinishJob, JobThrows, OtherThanJob, ExitProgram, ParserStep,
       DeleteSource, TrimCache, Ended, vars, buildVars
  <2> QED BY <1>5, <2>1 DEF RestInv, Working, InProject
<1>8. CASE SubmitRest
  <2>1. /\ step = "rest" /\ step' = "rest" /\ UNCHANGED tsconfigIndex
        /\ extractedFiles \subseteq extractedFiles' /\ extractedFiles' \subseteq extractedFiles \cup Source
        /\ \A f \in extractedFiles' \ extractedFiles : ~IsDerived(f)
    BY <1>8 DEF SubmitRest, SubmitFile, Go, At
  <2>2. TypeScript \subseteq extractedFiles
    BY <2>1 DEF RestInv
  <2> QED BY <1>2, <1>3, <1>4, <2>1, <2>2 DEF RestInv, Working
<1>9. CASE SubmitHtml \/ SubmitExtern
  <2>1. /\ UNCHANGED <<step, tsconfigIndex>> /\ step \in {"html", "externs"}
        /\ extractedFiles \subseteq extractedFiles'
        /\ extractedFiles' \subseteq extractedFiles \cup Html \cup Extern
    BY <1>9 DEF SubmitHtml, SubmitExtern, SubmitFile, Go, At
  <2>2. (extractedFiles \cap TypeScript)' = extractedFiles \cap TypeScript
    BY <2>1, Kinds, AutoBuildAssumption DEF AutoBuildAssumption
  <2> QED BY <1>5, <2>1, <2>2 DEF RestInv, Working
<1>10. CASE NextTypeScriptFile
  <2>1. /\ step = "parse" /\ step' \in {"parse", "read"} /\ UNCHANGED tsconfigIndex
        /\ \E f \in todo : extractedFiles' = extractedFiles \cup {f} /\ todo \subseteq todo' \cup {f}
    BY <1>10 DEF NextTypeScriptFile, Go, At
  <2>2. todo \subseteq TypeScript \cup Snippet
    BY <2>1 DEF BuildInv, TodoInv, Listing
  <2> QED BY <1>5, <2>1, <2>2 DEF RestInv, Working, InProject
<1>11. CASE ParsedFile
  <2>1. PICK f \in todo :
          /\ IsNext(f) /\ step = "parsing" /\ step' \in {"parse", "done"}
          /\ UNCHANGED <<tsconfigIndex, extractedFiles>>
          /\ step' = "parse" => todo' = todo \ {f}
    BY <1>11 DEF ParsedFile, Answered, Go, At, ExitProgram
  <2>2. f \in extractedFiles
    BY <2>1 DEF BuildInv, TodoInv, Parsing
  <2> QED BY <1>5, <2>1, <2>2 DEF RestInv, Working, InProject
<1>12. CASE OpenTsConfig \/ OpenedTsConfig \/ Announce \/ Announced \/ ParseFile \/ CloseTsConfig
  <2>1. /\ UNCHANGED <<tsconfigIndex, extractedFiles>>
        /\ step \in {"open", "opening"} \cup Working /\ step' \in {"opening", "closing", "done"} \cup Working
        /\ step \in Working /\ step' \in Working => UNCHANGED todo
        /\ step' = "opening" => InProject
        /\ step \notin Working /\ step' \in Working => step = "opening"
    BY <1>12 DEF OpenTsConfig, OpenedTsConfig, Announce, Announced, ParseFile, CloseTsConfig, Working,
       AskParser, Answered, Go, At, ExitProgram
  <2> QED BY <1>5, <2>1 DEF RestInv, Working, InProject
<1>13. CASE RemainingFiles
  <2>1. /\ UNCHANGED <<tsconfigIndex, extractedFiles>> /\ step \in {"open", "typing"}
        /\ step' = "kill" => TypeScript \subseteq extractedFiles
        /\ step' \in {"kill", "prepare"} /\ TypeScript \subseteq extractedFiles \cup todo'
    BY <1>13, Kinds, AutoBuildAssumption
       DEF RemainingFiles, Answered, Go, At, IsTypeScript, AutoBuildAssumption, Source
  <2> QED BY <1>5, <2>1 DEF RestInv, Working
<1>14. CASE StopParser \/ EndOfSource \/ EndOfExterns
  <2>1. /\ UNCHANGED <<tsconfigIndex, extractedFiles>> /\ step' \in {"rest", "externs", "shutdown"}
        /\ \/ step \in {"kill", "rest", "externs"}
           \/ step = "parse" /\ todo = {} /\ ~InProject
    BY <1>14 DEF StopParser, EndOfSource, EndOfExterns, Go, At
  <2> QED BY <1>5, <2>1 DEF RestInv, Working
<1>15. CASE JoinHtml
  <2>1. /\ UNCHANGED extractedFiles /\ step = "html" /\ step' \in {"verify", "rest"}
        /\ step' = "rest" => TypeScript = {}
    BY <1>15 DEF JoinHtml, Go, At
  <2> QED BY <1>5, <2>1 DEF RestInv, Working
<1>16. CASE \/ VerifyInstallation \/ GetOwnFiles \/ GotOwnFiles \/ ClosedTsConfig \/ GetTypeTable
            \/ ParserThrew \/ Finish
  <2>1. /\ UNCHANGED extractedFiles
        /\ step' \in {"own", "owning", "open", "typing", "unwind", "done"}
        /\ step \in Late => step' \in Late
    BY <1>16 DEF VerifyInstallation, GetOwnFiles, GotOwnFiles, ClosedTsConfig, GetTypeTable, ParserThrew,
       Finish, AskParser, Answered, Go, At, ExitProgram
  <2> QED BY <1>5, <2>1 DEF RestInv, Working
<1> QED BY <1>6, <1>7, <1>8, <1>9, <1>10, <1>11, <1>12, <1>13, <1>14, <1>15, <1>16
        DEF BuildNext, MainStep

LEMMA RestAlways == BuildSpec => []RestInv
<1>1. BuildInit => RestInv
  BY DEF BuildInit, RestInv, Working
<1>2. BuildInv /\ RestInv /\ [BuildNext]_vars => RestInv'
  BY StepRest
<1> QED BY <1>1, <1>2, BuildAlways, PTL DEF BuildSpec

\* A run that completes has extracted every file that was there throughout, and
\* not both a file and what it was compiled from, with any number of threads and
\* projects, whatever crashes in between.
THEOREM CompletesWithEveryFile == BuildSpec => []NothingForgotten
<1>1. BuildInv /\ RestInv => NothingForgotten
  <2> SUFFICES ASSUME BuildInv, RestInv, Completed PROVE NothingForgotten
    BY DEF NothingForgotten
  <2>1. \A f \in Jobs : job[f] \in {"none", "done"} /\ step = "done" /\ status # 1
    BY DEF BuildInv, EndInv, AllDone, Completed
  <2>2. \A f \in Jobs \cap extractedFiles \cap exists : trap[f] # NoTrap
    BY <2>1 DEF BuildInv, NotedInv, Parsing
  <2>3. \A f \in File : DerivedFrom[f] \subseteq TypeScript /\ TypeScript \subseteq Jobs
    BY AutoBuildAssumption DEF AutoBuildAssumption, Jobs, Source
  <2>4. ASSUME NEW f \in Jobs \cap exists
        PROVE  trap[f] # NoTrap \/ \E g \in DerivedFrom[f] : trap[g] # NoTrap \/ g \notin exists
    <3>1. f \in extractedFiles \/ IsDerived(f)
      BY <2>4, Kinds DEF BuildInv, CoverInv, Derived
    <3> QED BY <2>2, <2>3, <2>4, <3>1, Kinds DEF IsDerived
  <2>5. ASSUME NEW f \in Source \ (Html \cup TypeScript), trap[f] # NoTrap, NEW g \in DerivedFrom[f]
        PROVE  trap[g] = NoTrap
    <3>1. f \in File /\ g \in File
      BY <2>3, Kinds
    <3>2. f \in extractedFiles /\ (trap[g] # NoTrap => g \in extractedFiles)
      BY <2>5, <3>1 DEF BuildInv, JobInv
    <3> QED BY <2>5, <3>2 DEF RestInv, IsDerived
  <2> QED BY <2>4, <2>5 DEF NothingForgotten
<1> QED BY <1>1, BuildAlways, RestAlways, PTL

\* When the exit status is computed, the flags of all the jobs are in it.
THEOREM ExitStatusIsCorrect == BuildSpec => []ExitStatusIsRight
<1>1. BuildInv => ExitStatusIsRight
  <2> SUFFICES ASSUME BuildInv, Completed PROVE ExitStatusIsRight
    BY DEF ExitStatusIsRight
  <2>1. \A f \in Jobs : job[f] \notin Uncounted
    BY DEF BuildInv, EndInv, AllDone, Uncounted
  <2>2. \A f \in File : Counts(f) <=> trap[f] = "cached" \/ (trap[f] # NoTrap /\ f \in HasCode)
    BY <2>1 DEF Counts
  <2>3. status = 0 <=> \E f \in File \ Extern : Counts(f)
    BY DEF BuildInv, EndInv, SeenInv
  <2> QED BY <2>2, <2>3 DEF ExitStatusIsRight
<1> QED BY <1>1, BuildAlways, PTL

\* No file is extracted twice, by two jobs or by a job and the main thread.
THEOREM ExtractsOnce == BuildSpec => ExtractedOnce
<1>1. BuildInv /\ [BuildNext]_vars => [\A f \in File : trap[f] # NoTrap => trap'[f] = trap[f]]_trap
  <2> SUFFICES ASSUME BuildInv, BuildNext, trap' # trap
               PROVE  \A f \in File : trap[f] # NoTrap => trap'[f] = trap[f]
    BY DEF vars, buildVars
  <2>1. \E g \in File : \E t : trap[g] = NoTrap /\ trap' = [trap EXCEPT ![g] = t]
    <3>1. CASE PoolStep
      <4>1. PICK g \in Jobs : CopyCached(g) \/ Commit(g)
        BY <3>1 DEF PoolStep, StartJob, CacheHit, CacheMiss, WriteSnippet, RecordSnippet,
             ExtractContents, Publish, FinishJob, JobThrows
      <4>2. job[g] \in Unwritten /\ trap[g] = NoTrap
        BY <4>1 DEF CopyCached, Commit, JobStep, Unwritten, BuildInv, JobInv
      <4> QED BY <4>1, <4>2, Kinds DEF CopyCached, Commit
    <3>2. CASE MainStep
      <4>1. ParsedFile
        BY <3>2 DEF MainStep, SubmitHtml, SubmitRest, SubmitExtern, SubmitFile, JoinHtml,
             VerifyInstallation, GetOwnFiles, GotOwnFiles, OpenTsConfig, OpenedTsConfig, Announce,
             Announced, NextTypeScriptFile, ParseFile, CloseTsConfig, ClosedTsConfig, GetTypeTable,
             RemainingFiles, StopParser, EndOfSource, EndOfExterns, ParserThrew, Finish, AskParser
      <4>2. PICK g \in todo : /\ IsNext(g) /\ step = "parsing"
                              /\ trap' = [trap EXCEPT ![g] = result.response.project]
        BY <4>1 DEF ParsedFile, Answered, At
      <4>3. g \in File /\ trap[g] = NoTrap
        BY <4>2 DEF BuildInv, BuildTypeOK, TodoInv, Parsing
      <4> QED BY <4>2, <4>3
    <3>3. CASE ParserStep \/ DeleteSource \/ TrimCache \/ Ended
      BY <3>3 DEF ParserStep, DeleteSource, TrimCache, Ended, buildVars, vars
    <3> QED BY <3>1, <3>2, <3>3 DEF BuildNext
  <2>2. PICK g \in File : \E t : trap[g] = NoTrap /\ trap' = [trap EXCEPT ![g] = t]
    BY <2>1
  <2> QED BY <2>2 DEF BuildInv, BuildTypeOK
<1> QED BY <1>1, BuildAlways, PTL DEF BuildSpec, ExtractedOnce

-----------------------------------------------------------------------------
(* The order of requests.                                                  *)

\* A step of the autobuilder, seen from the parser.
LEMMA StepOfParser ==
  ASSUME BuildInv, [BuildNext]_vars
  PROVE  [Next]_parserVars \/ UNCHANGED <<clientVars, pipes, nodeVars>>
<1>1. CASE GetOwnFiles \/ OpenTsConfig \/ Announce \/ CloseTsConfig \/ GetTypeTable
  <2>1. PICK c \in Call : Invoke(c)
    BY <1>1, AsksACall DEF AskParser
  <2> QED BY <2>1 DEF Next
<1>2. CASE ParseFile
  <2>1. PICK f \in todo : \/ AskParser("read", [command |-> "parse", file |-> f], "parsing")
                          \/ UNCHANGED parserVars
    BY <1>2 DEF ParseFile
  <2>2. [command |-> "parse", file |-> f] \in Call
    BY DEF BuildInv, BuildTypeOK, Call, Request
  <2> QED BY <2>1, <2>2 DEF AskParser, Next
<1>3. CASE StopParser
  BY <1>3 DEF StopParser, Next
<1>4. CASE ParserStep \/ DeleteSource
  BY <1>4 DEF ParserStep, DeleteSource, Next
<1>5. CASE PoolStep
  <2>1. CASE \E f \in Jobs : WriteSnippet(f)
    BY <2>1 DEF WriteSnippet
  <2> QED BY <1>5, <2>1 DEF PoolStep, StartJob, CacheHit, CopyCached, CacheMiss, RecordSnippet,
                  ExtractContents, Commit, Publish, FinishJob, JobThrows
<1>6. CASE TrimCache \/ UNCHANGED vars
  BY <1>6 DEF TrimCache, vars
<1>7. CASE \/ SubmitHtml \/ JoinHtml \/ VerifyInstallation \/ GotOwnFiles \/ OpenedTsConfig
           \/ Announced \/ NextTypeScriptFile \/ ParsedFile \/ ClosedTsConfig \/ RemainingFiles
           \/ SubmitRest \/ EndOfSource \/ SubmitExtern \/ EndOfExterns \/ ParserThrew \/ Finish
  BY <1>7 DEF SubmitHtml, SubmitRest, SubmitExtern, SubmitFile, JoinHtml, VerifyInstallation,
      GotOwnFiles, OpenedTsConfig, Announced, NextTypeScriptFile, ParsedFile, ClosedTsConfig,
      RemainingFiles, EndOfSource, EndOfExterns, ParserThrew, Finish, Go
<1> QED BY <1>1, <1>2, <1>3, <1>4, <1>5, <1>6, <1>7 DEF BuildNext, MainStep, Ended

\* The autobuilder may rely on the effects of the calls it makes.
LEMMA BuildEffect ==
  ASSUME BuildInv, EffectInv, [BuildNext]_vars
  PROVE  EffectInv'
<1>1. CASE [Next]_parserVars
  BY <1>1, StepEffect DEF BuildInv
<1>2. CASE UNCHANGED <<clientVars, pipes, nodeVars>>
  BY <1>2, SameParserEffect
<1> QED BY <1>1, <1>2, StepOfParser

LEMMA WaitingCalls ==
  /\ DOMAIN CallAt = Waiting /\ "reset" \notin {CallAt[s] : s \in Waiting}
  /\ \A s \in Waiting : CallAt[s] = "parse" <=> s = "parsing"
  /\ {"parse", "read", "done", "rest", "unwind"} \cap Waiting = {} /\ "parsing" \in Waiting
BY DEF CallAt, Waiting

\* The main thread does not move, or it moves away from the lists.
LEMMA OrderElsewhere ==
  ASSUME OrderInv, UNCHANGED <<clientVars, pipes, nodeVars>>,
         \/ step' = step /\ todo' = todo
         \/ /\ step' \notin Waiting \cup {"parse", "read", "parsing"}
            /\ pc = "idle" \/ step' = "done"
  PROVE  OrderInv'
<1> USE DEF clientVars, pipes, nodeVars, stateVars, batchVars
<1>1. HeadIsNext'
  BY DEF OrderInv, HeadIsNext, NextFileIs
<1>2. CASE step' = step /\ todo' = todo
  BY <1>1, <1>2, SameNext DEF OrderInv, CallInv, ProcessInv, ListInv, Asked, RestOfList
<1>3. CASE /\ step' \notin Waiting \cup {"parse", "read", "parsing"}
           /\ pc = "idle" \/ step' = "done"
  BY <1>1, <1>3 DEF OrderInv, CallInv, ProcessInv, ListInv
<1> QED BY <1>2, <1>3

\* While nothing is asked both pipes are empty.
LEMMA IdleMeansEmpty ==
  ASSUME BuildInv, pc = "idle"
  PROVE  stdin = <<>> /\ stdout = <<>>
BY DEF BuildInv, ParserInv, Lockstep, PipesInStep

\* The list the main thread works off is one that can be announced.
LEMMA ListOfTodo ==
  ASSUME BuildInv, step \in Listing \cup Parsing
  PROVE  todo \in SUBSET File /\ \A fs \in SUBSET todo : Sorted(fs) \in Seq(File)
<1>1. todo \in SUBSET (TypeScript \cup Snippet)
  BY DEF BuildInv, TodoInv
<1>2. \A fs \in SUBSET (TypeScript \cup Snippet) : Sorted(fs) \in Batches
  BY AutoBuildAssumption DEF AutoBuildAssumption
<1>3. Batches \subseteq Seq(File)
  BY ParserAssumption DEF ParserAssumption
<1> QED BY <1>1, <1>2, <1>3, Kinds

LEMMA NextOfTodo ==
  ASSUME BuildInv, step \in Listing \cup Parsing, NEW f, IsNext(f)
  PROVE  /\ Sorted(todo) # <<>> /\ Head(Sorted(todo)) = f
         /\ Sorted(todo \ {f}) = Tail(Sorted(todo))
<1>1. f \in todo /\ Earlier(f, todo) = {}
  BY DEF IsNext
<1>2. todo \in SUBSET File /\ Sorted(todo) \in Seq(File) /\ Sorted(todo \ {f}) \in Seq(File)
  BY ListOfTodo
<1> QED BY <1>1, <1>2, TailOfSorted

\* The rest of the announced list, from where the process is.
LEMMA RestOf ==
  ASSUME NEW s \in Seq(File), NEW i \in Nat
  PROVE  LET rest == SubSeq(s, i + 1, Len(s)) IN
         /\ i = 0 => rest = s
         /\ rest # <<>> => i < Len(s) /\ s[i + 1] = Head(rest)
         /\ i < Len(s) => SubSeq(s, (i + 1) + 1, Len(s)) = Tail(rest)
OBVIOUS

\* The main thread asks something.
LEMMA OrderAsk ==
  ASSUME BuildInv, OrderInv, NEW from, NEW c \in Call, NEW to \in Waiting,
         AskParser(from, c, to), c.command = CallAt[to],
         to = "preparing" => c.files = Sorted(todo),
         to = "parsing" => from = "read" /\ IsNext(c.file)
  PROVE  OrderInv'
<1>1. /\ step = from /\ step' = to /\ pc = "idle" /\ pc' # "idle" /\ UNCHANGED todo
      /\ call' = c /\ request' = c
      /\ UNCHANGED <<handle, stdin, stdout, node, pendingFiles, pendingFileIndex>>
  BY DEF AskParser, At, Invoke, pipes, nodeVars, stateVars, batchVars
<1>2. Asked' = c
  BY <1>1 DEF Asked
<1>3. CallInv'
  BY <1>1, <1>2, SameNext DEF CallInv
<1>4. to \notin {"parse", "read"}
  BY DEF Waiting
<1>5. ProcessInv'
  BY <1>1, <1>4 DEF OrderInv, ProcessInv
<1>6. ListInv'
  BY <1>1, <1>4, IdleMeansEmpty DEF OrderInv, ListInv, RestOfList
<1>7. HeadIsNext'
  BY <1>1, IdleMeansEmpty DEF HeadIsNext
<1> QED BY <1>3, <1>5, <1>6, <1>7 DEF OrderInv

\* The steps that work off the list, between two calls.
LEMMA OrderLocal ==
  ASSUME BuildInv, OrderInv, NEW from, NEW to \in {"parse", "read"}, Go(from, to),
         handle,
         node = "running" => RestOfList = Sorted(todo')
  PROVE  OrderInv'
<1>1. /\ step = from /\ step' = to /\ pc = "idle" /\ pc' = "idle"
      /\ UNCHANGED <<handle, stdin, node, pendingFiles, pendingFileIndex>>
  BY DEF Go, At, parserVars, clientVars, pipes, nodeVars, stateVars, batchVars
<1>2. to \notin Waiting
  BY DEF Waiting
<1>3. CallInv' /\ ProcessInv' /\ ListInv'
  BY <1>1, <1>2 DEF CallInv, ProcessInv, ListInv, RestOfList, Waiting
<1>4. HeadIsNext'
  BY <1>1, IdleMeansEmpty DEF HeadIsNext
<1> QED BY <1>3, <1>4 DEF OrderInv

LEMMA AnnouncedOrder ==
  ASSUME BuildInv, EffectInv, OrderInv, Announced
  PROVE  OrderInv'
<1>1. /\ Go("preparing", "parse") /\ step = "preparing" /\ pc = "idle" /\ UNCHANGED todo
      /\ result.outcome = "ok"
  BY DEF Announced, Answered, At
<1>2. "preparing" \in Waiting /\ CallAt["preparing"] = "prepare-files"
  BY DEF Waiting, CallAt
<1>3. /\ handle /\ result # NoResult /\ result.call.command = "prepare-files"
      /\ result.call.files = Sorted(todo)
  BY <1>1, <1>2 DEF OrderInv, CallInv, ProcessInv, Asked
<1>4. node = "running" => pendingFiles = Sorted(todo) /\ pendingFileIndex = 0
  BY <1>1, <1>3 DEF EffectInv, SuccessMeansEffect, HasTakenEffect, Idle
<1>5. node = "running" => RestOfList = Sorted(todo')
  <2>1. pendingFiles \in Seq(File)
    BY DEF BuildInv, ParserInv, TypeOK
  <2> QED BY <1>1, <1>4, <2>1, RestOf DEF RestOfList
<1> QED BY <1>1, <1>3, <1>5, OrderLocal

\* The next file of the list is there.
SkipsNothing == NextTypeScriptFile => UNCHANGED todo

LEMMA NextFileOrder ==
  ASSUME BuildInv, OrderInv, SkipsNothing, NextTypeScriptFile
  PROVE  OrderInv'
<1>1. Go("parse", "read") /\ UNCHANGED todo /\ step = "parse"
  BY DEF NextTypeScriptFile, SkipsNothing, Go, At
<1>2. handle /\ (node = "running" => RestOfList = Sorted(todo'))
  BY <1>1 DEF OrderInv, ProcessInv, ListInv
<1> QED BY <1>1, <1>2, OrderLocal

LEMMA ParsedOrder ==
  ASSUME BuildInv, OrderInv, ParsedFile
  PROVE  OrderInv'
<1>1. PICK f \in todo :
        /\ IsNext(f) /\ step = "parsing" /\ pc = "idle"
        /\ \/ Go("parsing", "parse") /\ todo' = todo \ {f}
           \/ ExitProgram(1) /\ UNCHANGED parserVars
  BY DEF ParsedFile, Answered, At
<1>2. CASE Go("parsing", "parse") /\ todo' = todo \ {f}
  <2>1. handle /\ (node = "running" => RestOfList = Tail(Sorted(todo)))
    BY <1>1 DEF OrderInv, ProcessInv, ListInv
  <2>2. Sorted(todo \ {f}) = Tail(Sorted(todo))
    BY <1>1, NextOfTodo DEF Parsing
  <2> QED BY <1>2, <2>1, <2>2, OrderLocal
<1>3. CASE ExitProgram(1) /\ UNCHANGED parserVars
  BY <1>3, OrderElsewhere DEF ExitProgram, parserVars, Waiting
<1> QED BY <1>1, <1>2, <1>3

LEMMA StopOrder ==
  ASSUME BuildInv, OrderInv, StopParser
  PROVE  OrderInv'
<1>1. /\ pc = "idle" /\ pc' = "idle" /\ stdin' = <<>> /\ step' = "rest"
  BY DEF StopParser, KillProcess, Destroy
<1> QED BY <1>1, WaitingCalls
        DEF OrderInv, CallInv, ProcessInv, ListInv, HeadIsNext

\* What the call is that the client works on.
LEMMA CallInProgress ==
  ASSUME BuildInv, OrderInv, pc # "idle", step # "done"
  PROVE  /\ step \in Waiting /\ call.command = CallAt[step] /\ call.command # "reset"
         /\ call \in Call /\ request \in {call, Metadata} /\ Metadata # call
         /\ Metadata.command = "get-metadata"
         /\ call.command = "parse" <=> step = "parsing"
         /\ step = "parsing" => IsNext(call.file) /\ request = call /\ handle
<1>1. step \in Waiting /\ call.command = CallAt[step] /\ (step = "parsing" => IsNext(call.file))
  BY DEF OrderInv, CallInv, Asked
<1>2. call \in Call /\ request \in {call, Metadata} /\ Metadata # call
  BY MetadataIsNoCall DEF BuildInv, ParserInv, Lockstep
<1>3. step = "parsing" => request = call /\ handle
  BY DEF OrderInv, ProcessInv
<1> QED BY <1>1, <1>2, <1>3, WaitingCalls DEF Metadata

\* An exception of the call in progress: the process stays, if it is alive.
LEMMA ThrowsOrder ==
  ASSUME BuildInv, OrderInv, step # "done", pc # "idle", NEW error \in Errors, NEW unread,
         Throw(error, unread), UNCHANGED <<step, todo>>,
         node = "exited" \/ pc = "start" \/ stdout # <<>>
  PROVE  OrderInv'
<1>1. /\ Return(error, NoResponse) /\ UNCHANGED <<handle, stdin, node, pendingFiles, pendingFileIndex>>
  BY CallInProgress DEF Throw, nodeVars, stateVars, batchVars
<1>2. /\ pc' = "idle" /\ result' # NoResult /\ result'.call = call /\ result'.outcome = error
      /\ error # "ok"
  <2>1. result' = [call |-> call, outcome |-> error, response |-> NoResponse] /\ pc' = "idle"
    BY <1>1 DEF Return
  <2>2. result' \in Result
    BY <2>1, CallInProgress DEF Result
  <2> QED BY <2>1, <2>2, ParserAssumption DEF ParserAssumption, Errors
<1>3. CallInv'
  BY <1>2, CallInProgress, SameNext DEF OrderInv, CallInv, Asked
<1>4. ProcessInv'
  BY <1>1, <1>2 DEF OrderInv, ProcessInv
<1>5. ListInv'
  <2>1. CASE node = "exited"
    BY <1>1, <2>1 DEF ListInv
  <2>2. CASE node # "exited"
    <3>1. CASE step = "parsing"
      <4>1. pc # "start"
        BY <3>1, CallInProgress DEF BuildInv, ParserInv, Lockstep
      <4> QED BY <1>1, <1>2, <2>2, <3>1, <4>1, WaitingCalls DEF OrderInv, ListInv, RestOfList
    <3>2. CASE step # "parsing"
      <4>1. step \notin {"parse", "read"}
        BY CallInProgress, WaitingCalls
      <4> QED BY <1>1, <3>2, <4>1 DEF ListInv
    <3> QED BY <3>1, <3>2
  <2> QED BY <2>1, <2>2
<1>6. HeadIsNext'
  BY <1>1 DEF OrderInv, HeadIsNext, NextFileIs
<1> QED BY <1>3, <1>4, <1>5, <1>6 DEF OrderInv

\* A step of the client that goes on with the call.
LEMMA GoesOnOrder ==
  ASSUME BuildInv, OrderInv, step # "done", pc # "idle", pc' # "idle",
         UNCHANGED <<step, todo, call, request, handle, stdin, stdout, node, pendingFiles,
                     pendingFileIndex>>
  PROVE  OrderInv'
<1>1. CallInv'
  BY SameNext DEF OrderInv, CallInv, Asked
<1>2. ProcessInv' /\ ListInv' /\ HeadIsNext'
  BY DEF OrderInv, ProcessInv, ListInv, RestOfList, HeadIsNext, NextFileIs
<1> QED BY <1>1, <1>2 DEF OrderInv

\* The request reaches the process when its file is the next of the list.
LEMMA WriteOrder ==
  ASSUME BuildInv, OrderInv, step # "done", WriteRequest, UNCHANGED <<step, todo>>
  PROVE  OrderInv'
<1>1. pc = "write" /\ stdin = <<>> /\ stdout = <<>> /\ "CatastrophicError" \in Errors
  BY DEF WriteRequest, BuildInv, ParserInv, Lockstep, PipesInStep, Errors
<1>2. CASE node = "exited" /\ Throw("CatastrophicError", stdout)
  BY <1>1, <1>2, ThrowsOrder
<1>3. CASE /\ node = "running" /\ stdin' = Append(stdin, request) /\ pc' = "read"
           /\ UNCHANGED <<call, request, result, handle, stdout, nodeVars>>
  <2>1. UNCHANGED <<node, pendingFiles, pendingFileIndex>>
    BY <1>3 DEF nodeVars, stateVars, batchVars
  <2>2. CallInv'
    BY <1>1, <1>3, <2>1, SameNext DEF OrderInv, CallInv, Asked
  <2>3. ProcessInv' /\ ListInv'
    BY <1>1, <1>3, <2>1 DEF OrderInv, ProcessInv, ListInv, RestOfList
  <2>4. HeadIsNext'
    <3> SUFFICES ASSUME Head(stdin').command = "parse"
                 PROVE  NextFileIs(Head(stdin).file)'
      BY DEF HeadIsNext
    <3>1. Head(stdin') = request
      BY <1>1, <1>3
    <3>2. request = call /\ step = "parsing" /\ IsNext(call.file)
      BY <1>1, <3>1, CallInProgress
    <3>3. RestOfList = Sorted(todo)
      BY <1>1, <1>3, <3>2 DEF OrderInv, ListInv
    <3>4. Sorted(todo) # <<>> /\ Head(Sorted(todo)) = call.file
      BY <3>2, NextOfTodo DEF Parsing
    <3>5. pendingFiles \in Seq(File) /\ pendingFileIndex \in Nat
      BY DEF BuildInv, ParserInv, TypeOK
    <3>6. pendingFileIndex < Len(pendingFiles) /\ pendingFiles[pendingFileIndex + 1] = call.file
      BY <3>3, <3>4, <3>5, RestOf DEF RestOfList
    <3> QED BY <2>1, <3>1, <3>2, <3>6 DEF NextFileIs
  <2> QED BY <2>2, <2>3, <2>4 DEF OrderInv
<1> QED BY <1>2, <1>3 DEF WriteRequest

LEMMA ReadOrder ==
  ASSUME BuildInv, OrderInv, step # "done", ReadResponse, UNCHANGED <<step, todo>>
  PROVE  OrderInv'
<1> DEFINE response == Head(stdout)
<1>1. /\ pc = "read" /\ stdout # <<>> /\ "CatastrophicError" \in Errors /\ handle /\ stdin = <<>>
  BY DEF ReadResponse, BuildInv, ParserInv, Lockstep, Errors
<1>2. CASE Throw("CatastrophicError", Tail(stdout))
  BY <1>1, <1>2, ThrowsOrder
<1>3. CASE /\ request = Metadata /\ request' = call /\ pc' = "check"
           /\ UNCHANGED <<call, result, handle, stdin, nodeVars>>
  <2>1. step \notin {"parsing", "parse", "read"} /\ UNCHANGED <<node, pendingFiles, pendingFileIndex>>
    BY <1>1, <1>3, CallInProgress, WaitingCalls DEF nodeVars, stateVars, batchVars
  <2>2. CallInv'
    BY <1>1, <1>3, SameNext DEF OrderInv, CallInv, Asked
  <2> QED BY <1>1, <1>3, <2>1, <2>2
          DEF OrderInv, ProcessInv, ListInv, HeadIsNext
<1>4. CASE Return("ok", response) /\ UNCHANGED <<handle, metadata, stdin, nodeVars>>
  <2>1. pc' = "idle" /\ result'.call = call /\ UNCHANGED <<node, pendingFiles, pendingFileIndex>>
    BY <1>4 DEF Return, nodeVars, stateVars, batchVars
  <2>2. result' # NoResult
    <3>1. response \in Response /\ call \in Call
      BY <1>1, OneLine, CallInProgress DEF BuildInv, ParserInv, TypeOK
    <3>2. result' \in Result
      BY <1>4, <3>1 DEF Return, Result
    <3> QED BY <3>2, ParserAssumption DEF ParserAssumption
  <2>3. CallInv'
    BY <1>1, <2>1, <2>2, CallInProgress, SameNext DEF OrderInv, CallInv, Asked
  <2>4. ProcessInv'
    BY <1>1, <1>4, <2>1 DEF ProcessInv
  <2>5. ListInv'
    BY <1>1, <1>4, <2>1, CallInProgress, WaitingCalls DEF OrderInv, ListInv, RestOfList
  <2> QED BY <1>1, <1>4, <2>3, <2>4, <2>5 DEF OrderInv, HeadIsNext
<1> QED BY <1>2, <1>3, <1>4 DEF ReadResponse

\* What the process does leaves what the main thread waits for as it is.
LEMMA ProcessOrder ==
  ASSUME OrderInv, UNCHANGED clientVars, UNCHANGED <<step, todo>>, ListInv',
         HeadIsNext'
  PROVE  OrderInv'
<1>1. CallInv'
  BY SameNext DEF OrderInv, CallInv, Asked, clientVars
<1>2. ProcessInv'
  BY DEF OrderInv, ProcessInv, clientVars
<1> QED BY <1>1, <1>2 DEF OrderInv

LEMMA ExitOrder ==
  ASSUME OrderInv, NEW code, Exit(code), UNCHANGED clientVars, UNCHANGED <<step, todo>>
  PROVE  OrderInv'
<1>1. ListInv' /\ HeadIsNext'
  BY DEF Exit, ListInv, HeadIsNext
<1> QED BY <1>1, ProcessOrder

LEMMA HandlingRequest ==
  ASSUME BuildInv, OrderInv, step # "done", NEW command, Handling(command)
  PROVE  /\ pc = "read" /\ stdin = <<request>> /\ stdout = <<>> /\ node = "running"
         /\ command = "parse" <=> step = "parsing"
         /\ step \notin {"parse", "read"} /\ UNCHANGED clientVars
<1>1. pc = "read" /\ stdin = <<request>> /\ stdout = <<>> /\ node = "running"
  BY DEF Handling, BuildInv, ParserInv, Lockstep, PipesInStep
<1>2. request.command = command /\ UNCHANGED clientVars
  BY <1>1 DEF Handling
<1> QED BY <1>1, <1>2, CallInProgress, WaitingCalls

LEMMA HandleParseOrder ==
  ASSUME BuildInv, OrderInv, step # "done", HandleParse, UNCHANGED <<step, todo>>
  PROVE  OrderInv'
<1>1. /\ pc = "read" /\ stdin = <<request>> /\ stdout = <<>> /\ node = "running"
      /\ step = "parsing" /\ UNCHANGED clientVars
  BY HandlingRequest DEF HandleParse
<1>2. CASE Exit(UncaughtException)
  BY <1>1, <1>2, ExitOrder
<1>3. CASE /\ stdin' = <<>> /\ \E a : stdout' = Append(stdout, a)
           /\ NextFileIs(Head(stdin).file)
           /\ pendingFileIndex' = pendingFileIndex + 1 /\ UNCHANGED <<node, pendingFiles>>
  <2>1. pendingFiles \in Seq(File) /\ pendingFileIndex \in Nat
    BY DEF BuildInv, ParserInv, TypeOK
  <2>2. RestOfList = Sorted(todo)
    BY <1>1 DEF OrderInv, ListInv
  <2>3. RestOfList' = Tail(Sorted(todo))
    BY <1>3, <2>1, <2>2, RestOf DEF RestOfList, NextFileIs
  <2>4. stdout' # <<>>
    BY <1>1, <1>3
  <2>5. ListInv' /\ HeadIsNext'
    BY <1>1, <1>3, <2>3, <2>4 DEF ListInv, HeadIsNext
  <2> QED BY <1>1, <2>5, ProcessOrder
<1> QED BY <1>2, <1>3 DEF HandleParse, Answer

LEMMA HandleOtherOrder ==
  ASSUME BuildInv, OrderInv, step # "done", HandleLine, ~HandleParse, UNCHANGED <<step, todo>>
  PROVE  OrderInv'
<1>1. PICK command \in {"prepare-files", "get-own-files", "open-project", "close-project",
                        "get-type-table", "get-metadata", "reset"} :
        Handling(command) /\ stdin' = <<>>
  BY DEF HandleLine, HandlePrepareFiles, HandleGetOwnFiles, HandleOpenProject,
     HandleCloseProject, HandleGetTypeTable, HandleGetMetadata, HandleReset, Answer
<1>2. step \notin {"parsing", "parse", "read"} /\ UNCHANGED clientVars
  BY <1>1, HandlingRequest
<1>3. ListInv' /\ HeadIsNext'
  BY <1>1, <1>2 DEF ListInv, HeadIsNext
<1> QED BY <1>2, <1>3, ProcessOrder

LEMMA BackgroundOrder ==
  ASSUME BuildInv, OrderInv, PrepareNextFile \/ Crash, UNCHANGED <<step, todo>>
  PROVE  OrderInv'
<1>1. UNCHANGED clientVars /\ UNCHANGED stdout
  BY DEF PrepareNextFile, Crash
<1>2. CASE \E code : Exit(code)
  BY <1>1, <1>2, ExitOrder
<1>3. CASE UNCHANGED <<stdin, node, pendingFiles, pendingFileIndex>>
  <2>1. ListInv' /\ HeadIsNext'
    BY <1>1, <1>3
       DEF OrderInv, ListInv, RestOfList, HeadIsNext, NextFileIs, clientVars
  <2> QED BY <1>1, <2>1, ProcessOrder
<1> QED BY <1>2, <1>3 DEF PrepareNextFile, Crash, stateVars, batchVars

LEMMA StartOrder ==
  ASSUME BuildInv, OrderInv, step # "done", StartProcess, UNCHANGED <<step, todo>>
  PROVE  OrderInv'
<1>1. /\ pc = "start" /\ pc' = "check" /\ UNCHANGED <<call, result, stdin>> /\ ~handle
      /\ stdin = <<>>
  BY DEF StartProcess, pipes, BuildInv, ParserInv, Lockstep, PipesInStep
<1>2. step \notin {"parsing", "parse", "read"}
  BY <1>1, CallInProgress, WaitingCalls
<1>3. CallInv'
  BY <1>1, SameNext DEF OrderInv, CallInv, Asked
<1> QED BY <1>1, <1>2, <1>3 DEF OrderInv, ProcessInv, ListInv, HeadIsNext

LEMMA ClientOrder ==
  ASSUME BuildInv, OrderInv, step # "done", ClientStep, UNCHANGED <<step, todo>>
  PROVE  OrderInv'
<1>1. CASE ResetNothing
  BY <1>1, CallInProgress DEF ResetNothing
<1>2. CASE StartFails
  BY <1>2, ThrowsOrder, ParserAssumption DEF StartFails, ParserAssumption
<1>3. CASE CheckAlive
  <2>1. pc = "check" /\ ErrorOfExit(exitCode) \in Errors
    BY <1>3 DEF CheckAlive, ErrorOfExit, Errors
  <2>2. CASE node = "exited" /\ Throw(ErrorOfExit(exitCode), stdout)
    BY <2>1, <2>2, ThrowsOrder
  <2>3. CASE pc' = "write" /\ UNCHANGED <<call, request, result, handle, pipes, nodeVars>>
    BY <2>1, <2>3, GoesOnOrder DEF pipes, nodeVars, stateVars, batchVars
  <2> QED BY <1>3, <2>2, <2>3 DEF CheckAlive
<1>4. CASE ReadEndOfStream
  <2>1. pc = "read" /\ node = "exited" /\ ErrorOfExit(exitCode) \in Errors
        /\ "CatastrophicError" \in Errors
    BY <1>4 DEF ReadEndOfStream, ErrorOfExit, Errors
  <2> QED BY <1>4, <2>1, ThrowsOrder DEF ReadEndOfStream
<1> QED BY <1>1, <1>2, <1>3, <1>4, StartOrder, WriteOrder, ReadOrder DEF ClientStep

LEMMA ParserStepOrder ==
  ASSUME BuildInv, OrderInv, ParserStep
  PROVE  OrderInv'
<1>1. step # "done" /\ Internal /\ UNCHANGED <<step, todo>>
  BY DEF ParserStep, buildVars
<1> QED BY <1>1, ClientOrder, HandleParseOrder, HandleOtherOrder, BackgroundOrder
        DEF Internal, HandleLine

LEMMA MainStepOrder ==
  ASSUME BuildInv, EffectInv, OrderInv, SkipsNothing, MainStep
  PROVE  OrderInv'
<1>1. CASE GetOwnFiles \/ OpenTsConfig \/ Announce \/ CloseTsConfig \/ GetTypeTable
  <2>1. PICK from \in {"own", "open", "prepare", "parse"}, c \in Call,
             to \in {"owning", "opening", "preparing", "closing", "typing"} :
          AskParser(from, c, to) /\ c.command = CallAt[to] /\ (to = "preparing" => c.files = Sorted(todo))
    BY <1>1, AsksACall
  <2>2. to \in Waiting /\ to # "parsing"
    BY DEF Waiting
  <2> QED BY <2>1, <2>2, OrderAsk
<1>2. CASE ParseFile
  <2>1. PICK f \in todo :
          /\ IsNext(f)
          /\ \/ AskParser("read", [command |-> "parse", file |-> f], "parsing")
             \/ ExitProgram(1) /\ UNCHANGED parserVars
    BY <1>2 DEF ParseFile
  <2>2. [command |-> "parse", file |-> f] \in Call
    BY DEF BuildInv, BuildTypeOK, Call, Request
  <2>3. CASE AskParser("read", [command |-> "parse", file |-> f], "parsing")
    BY <2>1, <2>2, <2>3, OrderAsk, WaitingCalls
  <2>4. CASE ExitProgram(1) /\ UNCHANGED parserVars
    BY <2>4, OrderElsewhere DEF ExitProgram, parserVars, Waiting
  <2> QED BY <2>1, <2>3, <2>4
<1>3. CASE \/ SubmitHtml \/ JoinHtml \/ VerifyInstallation \/ GotOwnFiles \/ OpenedTsConfig
           \/ ClosedTsConfig \/ RemainingFiles
           \/ SubmitRest \/ EndOfSource \/ SubmitExtern \/ EndOfExterns \/ ParserThrew \/ Finish
  <2>1. UNCHANGED <<clientVars, pipes, nodeVars>> /\ pc = "idle"
    BY <1>3 DEF SubmitHtml, SubmitRest, SubmitExtern, SubmitFile, JoinHtml, VerifyInstallation,
        GotOwnFiles, OpenedTsConfig, ClosedTsConfig,
        RemainingFiles, EndOfSource, EndOfExterns, ParserThrew, Finish, Go, At, parserVars
  <2>2. step' \notin Waiting \cup {"parse", "read", "parsing"}
    BY <1>3 DEF SubmitHtml, SubmitRest, SubmitExtern, SubmitFile, JoinHtml, VerifyInstallation,
        GotOwnFiles, OpenedTsConfig, ClosedTsConfig, ExitProgram, Waiting,
        RemainingFiles, EndOfSource, EndOfExterns, ParserThrew, Finish, Go
  <2> QED BY <2>1, <2>2, OrderElsewhere
<1> QED BY <1>1, <1>2, <1>3, AnnouncedOrder, NextFileOrder, ParsedOrder, StopOrder DEF MainStep

LEMMA StepOrder ==
  ASSUME BuildInv, EffectInv, OrderInv, SkipsNothing, [BuildNext]_vars
  PROVE  OrderInv'
<1>1. CASE PoolStep
  <2>1. UNCHANGED <<clientVars, pipes, nodeVars>>
    BY <1>1 DEF PoolStep, StartJob, CacheHit, CopyCached, CacheMiss, WriteSnippet, RecordSnippet,
        ExtractContents, Commit, Publish, FinishJob, JobThrows, parserVars
  <2>2. (step' = step \/ step' = "done") /\ todo' = todo
    BY <1>1 DEF PoolStep, StartJob, CacheHit, CopyCached, CacheMiss, WriteSnippet, RecordSnippet,
        ExtractContents, Commit, Publish, FinishJob, JobThrows, OtherThanJob, ExitProgram
  <2> QED BY <2>1, <2>2, OrderElsewhere, WaitingCalls
<1>2. CASE DeleteSource \/ TrimCache \/ UNCHANGED vars
  BY <1>2, OrderElsewhere DEF DeleteSource, DeleteFile, TrimCache, OtherThanJob, vars, parserVars,
     buildVars
<1> QED BY <1>1, <1>2, MainStepOrder, ParserStepOrder DEF BuildNext, Ended

LEMMA InitOrder ==
  ASSUME BuildInit
  PROVE  EffectInv /\ OrderInv
<1>1. EffectInv
  BY InitEffect DEF BuildInit
<1>2. OrderInv
  BY DEF BuildInit, ParserInit, OrderInv, CallInv, ProcessInv, ListInv, HeadIsNext,
     Waiting
<1> QED BY <1>1, <1>2

\* What has been skipped stays so, and a file that is skipped now is of a list.
LEMMA SkippedGrow ==
  ASSUME BuildInv, [BuildNext]_vars, NoneSkipped'
  PROVE  NoneSkipped /\ SkipsNothing
<1>1. skipped \subseteq skipped'
  BY DEF BuildNext, MainStep, PoolStep, SubmitHtml, SubmitRest, SubmitExtern, SubmitFile,
     JoinHtml, VerifyInstallation, GetOwnFiles, GotOwnFiles, OpenTsConfig, OpenedTsConfig, Announce,
     Announced, NextTypeScriptFile, ParseFile, ParsedFile, CloseTsConfig, ClosedTsConfig,
     GetTypeTable, RemainingFiles, StopParser, EndOfSource, EndOfExterns, ParserThrew, Finish,
     AskParser, Go, StartJob, CacheHit, CopyCached, CacheMiss, WriteSnippet,
     RecordSnippet, ExtractContents, Commit, Publish, FinishJob, JobThrows, ParserStep,
     DeleteSource, TrimCache, Ended, vars, buildVars
<1>2. SkipsNothing
  <2> SUFFICES ASSUME NextTypeScriptFile PROVE UNCHANGED todo
    BY DEF SkipsNothing
  <2>1. PICK f \in todo : /\ step = "parse"
                          /\ UNCHANGED todo \/ skipped' = skipped \cup {f}
    BY DEF NextTypeScriptFile, Go, At
  <2>2. f \in TypeScript \cup Snippet
    BY <2>1 DEF BuildInv, TodoInv, Listing
  <2> QED BY <2>1, <2>2 DEF NoneSkipped
<1> QED BY <1>1, <1>2 DEF NoneSkipped

\* Until a file of a list is skipped, the process is asked to parse the files in
\* the order it was told, whatever else it is asked, wherever it is restarted
\* (extractTypeScriptFiles, "File requested out of order").
THEOREM AsksInOrder == BuildSpec => []RequestsInAnnouncedOrder
<1> DEFINE IInv == EffectInv /\ (NoneSkipped => OrderInv)
<1>1. BuildInit => IInv
  BY InitOrder
<1>2. BuildInv /\ IInv /\ [BuildNext]_vars => IInv'
  BY StepOrder, BuildEffect, SkippedGrow
<1>3. IInv => RequestsInAnnouncedOrder
  BY DEF OrderInv, RequestsInAnnouncedOrder
<1> HIDE DEF IInv
<1> QED BY <1>1, <1>2, <1>3, BuildAlways, PTL DEF BuildSpec

-----------------------------------------------------------------------------
(* The snippets of HTML files.                                             *)

Recorded == {"commit", "publish", "finish", "done"}

\* Snippets are only added, and files that have one only disappear.
LEMMA SnippetsGrow ==
  ASSUME BuildInv, [BuildNext]_vars
  PROVE  snippets \subseteq snippets' /\ WithSnippet' \subseteq WithSnippet
<1>1. snippets \subseteq snippets'
  <2>1. CASE PoolStep
    BY <2>1 DEF PoolStep, StartJob, CacheHit, CopyCached, CacheMiss, WriteSnippet, RecordSnippet,
        ExtractContents, Commit, Publish, FinishJob, JobThrows
  <2>2. CASE ParserStep \/ DeleteSource \/ TrimCache \/ UNCHANGED vars
    BY <2>2 DEF ParserStep, DeleteSource, TrimCache, vars, buildVars
  <2>3. CASE MainStep
    BY <2>3 DEF MainStep, SubmitHtml, SubmitRest, SubmitExtern, SubmitFile, JoinHtml,
        VerifyInstallation, GetOwnFiles, GotOwnFiles, OpenTsConfig, OpenedTsConfig, Announce,
        Announced, NextTypeScriptFile, ParseFile, ParsedFile, CloseTsConfig, ClosedTsConfig,
        GetTypeTable, RemainingFiles, StopParser, EndOfSource, EndOfExterns, ParserThrew, Finish,
        AskParser
  <2> QED BY <2>1, <2>2, <2>3 DEF BuildNext, Ended
<1>2. exists' \cap Html \subseteq exists
  <2>1. CASE PoolStep
    <3>1. CASE \E f \in Jobs : WriteSnippet(f)
      <4>1. PICK f \in Html : exists' = exists \cup {SnippetOf[f]} /\ SnippetOf[f] # NoFile
        BY <3>1 DEF WriteSnippet
      <4>2. SnippetOf[f] \in Snippet /\ Html \cap Snippet = {}
        BY <4>1, AutoBuildAssumption DEF AutoBuildAssumption
      <4> QED BY <4>1, <4>2
    <3> QED BY <2>1, <3>1 DEF PoolStep, StartJob, CacheHit, CopyCached, CacheMiss, RecordSnippet,
          ExtractContents, Commit, Publish, FinishJob, JobThrows, parserVars
  <2>2. CASE ParserStep
    BY <2>2, ParserKeeps DEF ParserStep, BuildInv, buildVars
  <2>3. CASE DeleteSource \/ TrimCache \/ UNCHANGED vars
    BY <2>3 DEF DeleteSource, DeleteFile, TrimCache, vars, parserVars
  <2>4. CASE MainStep
    BY <2>4 DEF MainStep, SubmitHtml, SubmitRest, SubmitExtern, SubmitFile, JoinHtml,
        VerifyInstallation, GetOwnFiles, GotOwnFiles, OpenTsConfig, OpenedTsConfig, Announce,
        Announced, NextTypeScriptFile, ParseFile, ParsedFile, CloseTsConfig, ClosedTsConfig,
        GetTypeTable, RemainingFiles, StopParser, EndOfSource, EndOfExterns, ParserThrew, Finish,
        AskParser, Go, Invoke, KillProcess, parserVars
  <2> QED BY <2>1, <2>2, <2>3, <2>4 DEF BuildNext, Ended
<1> QED BY <1>1, <1>2 DEF WithSnippet

LEMMA StepEarly ==
  ASSUME EarlyInv, [BuildNext]_vars
  PROVE  /\ EarlyInv' /\ (step' = "html" => step = "html")
         /\ step' = "done" => UNCHANGED project
<1> USE DEF EarlyInv, clientVars, nodeVars, stateVars, parserVars
<1>1. CASE PoolStep
  BY <1>1 DEF PoolStep, StartJob, CacheHit, CopyCached, CacheMiss, WriteSnippet, RecordSnippet,
      ExtractContents, Commit, Publish, FinishJob, JobThrows, OtherThanJob, ExitProgram
<1>2. CASE ParserStep
  <2>1. step # "html"
    BY <1>2 DEF ParserStep, Internal, ClientStep, ResetNothing, StartProcess, StartFails, CheckAlive,
        WriteRequest, ReadResponse, ReadEndOfStream, HandleLine, HandleParse, HandlePrepareFiles,
        HandleGetOwnFiles, HandleOpenProject, HandleCloseProject, HandleGetTypeTable,
        HandleGetMetadata, HandleReset, Handling, PrepareNextFile, Crash
  <2> QED BY <1>2, <2>1 DEF ParserStep, buildVars
<1>3. CASE DeleteSource \/ TrimCache \/ UNCHANGED vars
  BY <1>3 DEF DeleteSource, DeleteFile, TrimCache, OtherThanJob, vars, buildVars
<1>4. CASE MainStep
  <2>1. CASE SubmitHtml
    BY <2>1 DEF SubmitHtml, SubmitFile, Go, At
  <2>2. CASE ~SubmitHtml
    <3>1. step' # "html"
      BY <1>4, <2>2 DEF MainStep, SubmitRest, SubmitExtern, SubmitFile, JoinHtml,
          VerifyInstallation, GetOwnFiles, GotOwnFiles, OpenTsConfig, OpenedTsConfig, Announce,
          Announced, NextTypeScriptFile, ParseFile, ParsedFile, CloseTsConfig, ClosedTsConfig,
          GetTypeTable, RemainingFiles, StopParser, EndOfSource, EndOfExterns, ParserThrew, Finish,
          AskParser, Go, ExitProgram
    <3>2. step' = "done" => UNCHANGED project
      BY <1>4, <2>2 DEF MainStep, SubmitRest, SubmitExtern, SubmitFile, JoinHtml,
          VerifyInstallation, GetOwnFiles, GotOwnFiles, OpenTsConfig, OpenedTsConfig, Announce,
          Announced, NextTypeScriptFile, ParseFile, ParsedFile, CloseTsConfig, ClosedTsConfig,
          GetTypeTable, RemainingFiles, StopParser, EndOfSource, EndOfExterns, ParserThrew, Finish,
          AskParser, Go
    <3> QED BY <3>1, <3>2
  <2> QED BY <2>1, <2>2
<1> QED BY <1>1, <1>2, <1>3, <1>4 DEF BuildNext, Ended

\* A job never goes back to "none".
LEMMA JobsStay ==
  ASSUME BuildInv, PoolStep
  PROVE  \A f \in Jobs : job[f] # "none" => job'[f] # "none"
<1>1. job \in [Jobs -> JobPlace] /\ queue \in Seq(Jobs)
  BY DEF BuildInv, BuildTypeOK
<1>2. PICK g \in Jobs : \E to : to # "none" /\ job' = [job EXCEPT ![g] = to]
  <2>1. CASE StartJob
    <3>1. Head(queue) \in Jobs
      BY <1>1, <2>1 DEF StartJob
    <3>2. job' = [job EXCEPT ![Head(queue)] = IF Head(queue) \in exists THEN "lookup" ELSE "done"]
      BY <2>1 DEF StartJob
    <3>3. "lookup" # "none" /\ "done" # "none"
      OBVIOUS
    <3> QED BY <3>1, <3>2, <3>3
  <2>2. CASE ~StartJob
    BY <2>2 DEF PoolStep, CacheHit, CopyCached, CacheMiss, WriteSnippet, RecordSnippet,
      ExtractContents, Commit, Publish, FinishJob, JobThrows, JobStep
  <2> QED BY <2>1, <2>2
<1> QED BY <1>1, <1>2

LEMMA StepComing ==
  ASSUME BuildInv, EarlyInv, ComingInv, [BuildNext]_vars
  PROVE  ComingInv'
<1> SUFFICES ASSUME step' = "html" PROVE ComingInv'
  BY DEF ComingInv
<1>1. step = "html" /\ Html \subseteq Jobs
  BY StepEarly, Kinds
<1>2. CASE PoolStep
  <2>1. UNCHANGED <<todo, extractedFiles>>
    BY <1>2 DEF PoolStep, StartJob, CacheHit, CopyCached, CacheMiss, WriteSnippet, RecordSnippet,
      ExtractContents, Commit, Publish, FinishJob, JobThrows, OtherThanJob
  <2> QED BY <1>1, <1>2, <2>1, JobsStay DEF ComingInv
<1>3. CASE ParserStep \/ DeleteSource \/ TrimCache \/ UNCHANGED vars
  BY <1>1, <1>3 DEF ParserStep, DeleteSource, TrimCache, OtherThanJob, vars, buildVars, ComingInv
<1>4. CASE MainStep
  <2>1. SubmitHtml
    BY <1>1, <1>4 DEF MainStep, SubmitRest, SubmitExtern, SubmitFile, JoinHtml,
        VerifyInstallation, GetOwnFiles, GotOwnFiles, OpenTsConfig, OpenedTsConfig, Announce,
        Announced, NextTypeScriptFile, ParseFile, ParsedFile, CloseTsConfig, ClosedTsConfig,
        GetTypeTable, RemainingFiles, StopParser, EndOfSource, EndOfExterns, ParserThrew, Finish,
        AskParser, Go, At, Answered, ExitProgram
  <2>2. PICK f \in todo :
          /\ todo' = todo \ {f}
          /\ \/ /\ f \in extractedFiles \/ f \notin Html
                /\ UNCHANGED <<extractedFiles, queue, job>>
             \/ /\ f \in Html /\ extractedFiles' = extractedFiles \cup {f}
                /\ job' = [job EXCEPT ![f] = "queued"]
    BY <2>1 DEF SubmitHtml, SubmitFile
  <2>3. job \in [Jobs -> JobPlace]
    BY DEF BuildInv, BuildTypeOK
  <2> QED BY <1>1, <2>2, <2>3 DEF ComingInv
<1> QED BY <1>2, <1>3, <1>4 DEF BuildNext, Ended

LEMMA StepRecorded ==
  ASSUME BuildInv, RecordedInv, HtmlIsExtracted, [BuildNext]_vars
  PROVE  RecordedInv'
<1> SUFFICES ASSUME NEW f \in WithSnippet', job'[f] \in Recorded, step' # "done"
             PROVE  SnippetOf[f] \in snippets'
  BY DEF RecordedInv, Recorded
<1>1. /\ f \in WithSnippet /\ f \in Html /\ f \in exists' /\ SnippetOf[f] # NoFile /\ f \in Jobs
      /\ snippets \subseteq snippets'
  BY SnippetsGrow, Kinds DEF WithSnippet
<1>2. CASE job[f] \in Recorded /\ step # "done"
  BY <1>1, <1>2 DEF RecordedInv, Recorded
<1>3. CASE step = "done"
  BY <1>3, EndIsFinal
<1>4. CASE job[f] \notin Recorded
  <2>1. job'[f] # job[f] /\ job \in [Jobs -> JobPlace] /\ queue \in Seq(Jobs)
    BY <1>4 DEF BuildInv, BuildTypeOK
  <2>2. CASE MainStep
    <3>1. PICK g : job' = [job EXCEPT ![g] = "queued"]
      BY <2>1, <2>2 DEF MainStep, SubmitHtml, SubmitRest, SubmitExtern, SubmitFile,
         JoinHtml, VerifyInstallation, GetOwnFiles, GotOwnFiles, OpenTsConfig, OpenedTsConfig,
         Announce, Announced, NextTypeScriptFile, ParseFile, ParsedFile, CloseTsConfig,
         ClosedTsConfig, GetTypeTable, RemainingFiles, StopParser, EndOfSource, EndOfExterns,
         ParserThrew, Finish, AskParser, poolVars
    <3> QED BY <1>1, <2>1, <3>1 DEF Recorded
  <2>3. CASE StartJob
    BY <1>1, <2>1, <2>3 DEF StartJob, Recorded, parserVars
  <2>4. CASE \E g \in Jobs : CopyCached(g) \/ ExtractContents(g) \/ Commit(g) \/ Publish(g) \/ FinishJob(g)
    <3>1. PICK g \in Jobs : CopyCached(g) \/ ExtractContents(g) \/ Commit(g) \/ Publish(g) \/ FinishJob(g)
      BY <2>4
    <3>2. g = f
      BY <1>1, <2>1, <3>1 DEF CopyCached, ExtractContents, Commit, Publish, FinishJob, JobStep
    <3> QED BY <1>1, <1>4, <3>1, <3>2 DEF CopyCached, ExtractContents, Commit, Publish, FinishJob,
            JobStep, HtmlIsExtracted, Recorded
  <2>5. CASE \E g \in Jobs : RecordSnippet(g)
    BY <1>1, <2>1, <2>5 DEF RecordSnippet, JobStep
  <2>6. CASE \E g \in Jobs : CacheHit(g) \/ CacheMiss(g) \/ WriteSnippet(g)
    BY <1>1, <2>1, <2>6 DEF CacheHit, CacheMiss, WriteSnippet, JobStep, Recorded
  <2>7. CASE \E g \in Jobs : JobThrows(g)
    BY <2>7 DEF JobThrows, ExitProgram
  <2>8. CASE ParserStep \/ DeleteSource \/ TrimCache \/ UNCHANGED vars
    BY <2>1, <2>8 DEF ParserStep, DeleteSource, TrimCache, vars, buildVars
  <2> QED BY <2>2, <2>3, <2>4, <2>5, <2>6, <2>7, <2>8 DEF BuildNext, PoolStep, Ended
<1> QED BY <1>2, <1>3, <1>4

LEMMA StepKnown ==
  ASSUME BuildInv, ComingInv, RecordedInv, KnownInv, [BuildNext]_vars
  PROVE  KnownInv'
<1>1. snippets \subseteq snippets' /\ WithSnippet' \subseteq WithSnippet
  BY SnippetsGrow
<1>2. CASE step \notin {"html", "done"}
  BY <1>1, <1>2 DEF KnownInv
<1>3. CASE step = "html" /\ step' \notin {"html", "done"}
  <2>1. JoinHtml
    BY <1>3 DEF BuildNext, MainStep, PoolStep, SubmitHtml, SubmitRest, SubmitExtern, SubmitFile,
     VerifyInstallation, GetOwnFiles, GotOwnFiles, OpenTsConfig, OpenedTsConfig, Announce,
     Announced, NextTypeScriptFile, ParseFile, ParsedFile, CloseTsConfig, ClosedTsConfig,
     GetTypeTable, RemainingFiles, StopParser, EndOfSource, EndOfExterns, ParserThrew, Finish,
     AskParser, Go, At, Answered, StartJob, CacheHit, CopyCached, CacheMiss, WriteSnippet,
     RecordSnippet, ExtractContents, Commit, Publish, FinishJob, JobThrows, OtherThanJob, ParserStep,
     DeleteSource, TrimCache, Ended, vars, buildVars, ExitProgram
  <2>2. todo = {} /\ AllDone /\ Html \subseteq Jobs
    BY <2>1, Kinds DEF JoinHtml
  <2>3. \A f \in Html : job[f] = "done"
    BY <1>3, <2>2 DEF ComingInv, AllDone
  <2>4. \A f \in WithSnippet : SnippetOf[f] \in snippets
    BY <1>3, <2>3 DEF RecordedInv, WithSnippet
  <2> QED BY <1>1, <2>4 DEF KnownInv
<1>4. CASE step = "done"
  <2>1. step' = "done"
    BY <1>4, EndIsFinal
  <2> QED BY <2>1 DEF KnownInv
<1> QED BY <1>2, <1>3, <1>4 DEF KnownInv

LEMMA StepSnippet ==
  ASSUME BuildInv, SnippetInv, HtmlIsExtracted, [BuildNext]_vars
  PROVE  SnippetInv'
<1>1. EarlyInv /\ ComingInv /\ RecordedInv /\ KnownInv /\ SnippetOfEveryHtmlFile
  BY DEF SnippetInv
<1>2. EarlyInv' /\ ComingInv' /\ RecordedInv' /\ KnownInv'
  BY <1>1, StepEarly, StepComing, StepRecorded, StepKnown
<1>3. SnippetOfEveryHtmlFile'
  <2>1. CASE step' = "html"
    BY <1>2, <2>1 DEF EarlyInv, SnippetOfEveryHtmlFile
  <2>2. CASE step' = "done"
    <3>1. UNCHANGED project /\ snippets \subseteq snippets' /\ WithSnippet' \subseteq WithSnippet
      BY <1>1, <2>2, StepEarly, SnippetsGrow
    <3> QED BY <1>1, <3>1 DEF SnippetOfEveryHtmlFile, WithSnippet
  <2>3. CASE step' \notin {"html", "done"}
    BY <1>2, <2>3 DEF KnownInv, SnippetOfEveryHtmlFile, WithSnippet
  <2> QED BY <2>1, <2>2, <2>3
<1> QED BY <1>2, <1>3 DEF SnippetInv

\* If no HTML file comes out of the trap cache, then whenever a project is
\* open the TypeScript snippets of all HTML files are known, whatever the order
\* of the jobs: extractSource joins them before it opens a project.
THEOREM KnowsEverySnippet == BuildSpec /\ []HtmlIsExtracted => []SnippetOfEveryHtmlFile
<1>1. BuildInit => SnippetInv
  BY Kinds DEF BuildInit, ParserInit, SnippetInv, EarlyInv, ComingInv, RecordedInv, KnownInv,
     SnippetOfEveryHtmlFile, WithSnippet
<1>2. BuildInv /\ SnippetInv /\ HtmlIsExtracted /\ [BuildNext]_vars => SnippetInv'
  BY StepSnippet
<1>3. SnippetInv => SnippetOfEveryHtmlFile
  BY DEF SnippetInv
<1> QED BY <1>1, <1>2, <1>3, BuildAlways, PTL DEF BuildSpec

-----------------------------------------------------------------------------
(* The project that a file is extracted with.                              *)

LEMMA TypedKinds ==
  /\ TypeScript \subseteq Source /\ Source \cap (Snippet \cup Extern) = {}
  /\ TypeScript \cap (Html \cup Snippet \cup Extern) = {} /\ Html \cap Snippet = {}
  /\ Source \subseteq Jobs /\ Extern \subseteq Jobs
BY AutoBuildAssumption DEF AutoBuildAssumption, Source, Jobs

\* The projects in the order in which they are opened.
LEMMA Projects ==
  /\ Len(TsConfigs) \in Nat /\ DOMAIN TsConfigs = 1 .. Len(TsConfigs)
  /\ \A i \in DOMAIN TsConfigs :
       /\ TsConfigs[i] \in Project /\ TsConfigs[i] # NoProject
       /\ OwnFiles[TsConfigs[i]] \subseteq ProgramFiles[TsConfigs[i]]
<1>1. TsConfigs \in Seq(Project) /\ \A p \in Project : OwnFiles[p] \subseteq ProgramFiles[p]
  BY AutoBuildAssumption DEF AutoBuildAssumption
<1>2. NoProject \notin Project
  BY ParserAssumption DEF ParserAssumption
<1> QED BY <1>1, <1>2

\* The project of the current iteration is one of them.
LEMMA CurrentIs ==
  ASSUME BuildInv
  PROVE  /\ InProject => tsconfigIndex \in DOMAIN TsConfigs
         /\ ~InProject => \A i \in DOMAIN TsConfigs : i < tsconfigIndex
         /\ InProject => Current = ThisTsConfig /\ ThisTsConfig \in Project \ {NoProject}
         /\ ~InProject => Current = NoProject
<1>1. tsconfigIndex \in Nat \ {0}
  BY DEF BuildInv, BuildTypeOK
<1> QED BY <1>1, Projects DEF InProject, Current, ThisTsConfig

\* The least of some indices is what First chooses.
LEMMA FirstIs ==
  ASSUME NEW S \in SUBSET (DOMAIN TsConfigs), NEW i \in S, \A j \in S : i <= j
  PROVE  First(S) = TsConfigs[i]
<1>1. \A k \in S : (\A j \in S : k <= j) => k = i
  BY Projects
<1>2. (CHOOSE k \in S : \A j \in S : k <= j) = i
  BY <1>1
<1> QED BY <1>2 DEF First

\* The best project is the first of those that take the file.
LEMMA BestIsTaken ==
  ASSUME NEW f, NEW i \in DOMAIN TsConfigs, Takes(i, f),
         \A j \in DOMAIN TsConfigs : j < i => ~Takes(j, f)
  PROVE  BestProject(f) = TsConfigs[i]
<1> DEFINE R == {j \in DOMAIN TsConfigs : f \in ProgramFiles[TsConfigs[j]]}
           I == {j \in R : f \in OwnFiles[TsConfigs[j]]}
<1>1. BestProject(f) = IF I # {} THEN First(I) ELSE IF R # {} THEN First(R) ELSE NoProject
  BY DEF BestProject
<1>2. \A j \in DOMAIN TsConfigs : f \in OwnFiles[TsConfigs[j]] <=> j \in I
  BY Projects
<1>3. \A j \in DOMAIN TsConfigs : Takes(j, f) <=> j \in R /\ (j \in I \/ I = {})
  BY <1>2 DEF Takes
<1>4. \A j \in DOMAIN TsConfigs : j < i \/ i <= j
  BY Projects
<1>5. CASE I # {}
  <2>1. i \in I /\ \A j \in I : i <= j
    BY <1>3, <1>4, <1>5
  <2> QED BY <1>1, <1>5, <2>1, FirstIs
<1>6. CASE I = {}
  <2>1. i \in R /\ \A j \in R : i <= j
    BY <1>3, <1>4, <1>6
  <2>2. First(R) = TsConfigs[i]
    BY <2>1, FirstIs
  <2> QED BY <1>1, <1>6, <2>1, <2>2
<1> QED BY <1>5, <1>6

LEMMA NobodyTakes ==
  ASSUME NEW f, \A i \in DOMAIN TsConfigs : ~Takes(i, f)
  PROVE  BestProject(f) = NoProject
<1>1. \A i \in DOMAIN TsConfigs : f \notin OwnFiles[TsConfigs[i]]
  BY Projects DEF Takes
<1>2. \A i \in DOMAIN TsConfigs : f \notin ProgramFiles[TsConfigs[i]]
  BY <1>1 DEF Takes
<1> QED BY <1>1, <1>2 DEF BestProject

\* What is claimed for a project is what it takes of the files that are left.
LEMMA ClaimedIsTaken ==
  ASSUME BuildInv, IncludedInv, step = "opening", InProject, NEW r, RightAnswer(r), NEW f
  PROVE  f \in Claimed(r.ownFiles, r.allFiles)
           <=> f \in Typed /\ Takes(tsconfigIndex, f) /\ f \notin extractedFiles
<1>1. f \in Source \cup snippets /\ IsTypeScript(f) <=> f \in Typed
  <2>1. snippets \subseteq Snippet
    BY DEF BuildInv, BuildTypeOK
  <2> QED BY <2>1, TypedKinds DEF IsTypeScript, Typed
<1> SUFFICES ASSUME f \in Typed
             PROVE  f \in r.allFiles /\ (f \in r.ownFiles \/ f \notin explicitlyIncluded)
                      <=> Takes(tsconfigIndex, f)
  BY <1>1 DEF Claimed
<1>2. tsconfigIndex \in DOMAIN TsConfigs
  BY CurrentIs
<1>3. /\ f \in r.allFiles <=> f \in ProgramFiles[ThisTsConfig]
      /\ f \in r.ownFiles <=> f \in OwnFiles[ThisTsConfig]
  BY DEF RightAnswer
<1>4. explicitlyIncluded \cap Typed =
        IF Len(TsConfigs) > 1 THEN OwnBefore(Len(TsConfigs) + 1) \cap Typed ELSE {}
  BY DEF IncludedInv, Before
<1>5. CASE Len(TsConfigs) > 1
  <2>1. f \in explicitlyIncluded <=> \E j \in DOMAIN TsConfigs : f \in OwnFiles[TsConfigs[j]]
    BY <1>4, <1>5, Projects DEF OwnBefore
  <2> QED BY <1>3, <2>1 DEF Takes, ThisTsConfig
<1>6. CASE ~(Len(TsConfigs) > 1)
  <2>1. \A j \in DOMAIN TsConfigs : j = tsconfigIndex
    BY <1>2, <1>6, Projects
  <2>2. f \notin explicitlyIncluded
    BY <1>4, <1>6
  <2> QED BY <1>3, <2>1, <2>2 DEF Takes, ThisTsConfig
<1> QED BY <1>5, <1>6

-----------------------------------------------------------------------------
(* The files that may have types stay the same.                            *)

LEMMA SnippetsStay ==
  ASSUME BuildInv, KindsOfJobs, [BuildNext]_vars, step # "html"
  PROVE  snippets' = snippets /\ Typed' = Typed
<1>1. CASE PoolStep
  <2>1. CASE \E f \in Jobs : RecordSnippet(f)
    <3>1. PICK f \in Jobs : job[f] = "record" /\ step # "done"
      BY <2>1 DEF RecordSnippet, JobStep
    <3> QED BY <3>1 DEF KindsOfJobs
  <2>2. CASE ~\E f \in Jobs : RecordSnippet(f)
    BY <1>1, <2>2 DEF PoolStep, StartJob, CacheHit, CopyCached, CacheMiss, WriteSnippet,
        ExtractContents, Commit, Publish, FinishJob, JobThrows, Typed
  <2> QED BY <2>1, <2>2
<1>2. CASE ParserStep \/ DeleteSource \/ TrimCache \/ UNCHANGED vars
  BY <1>2 DEF ParserStep, DeleteSource, TrimCache, vars, buildVars, Typed
<1>3. CASE MainStep
  BY <1>3 DEF MainStep, SubmitHtml, SubmitRest, SubmitExtern, SubmitFile, JoinHtml,
      VerifyInstallation, GetOwnFiles, GotOwnFiles, OpenTsConfig, OpenedTsConfig, Announce,
      Announced, NextTypeScriptFile, ParseFile, ParsedFile, CloseTsConfig, ClosedTsConfig,
      GetTypeTable, RemainingFiles, StopParser, EndOfSource, EndOfExterns, ParserThrew, Finish,
      AskParser, Typed
<1> QED BY <1>1, <1>2, <1>3 DEF BuildNext, Ended

-----------------------------------------------------------------------------
(* The parser while the main thread waits.                                 *)

ParserTyped == ProjectInv /\ AheadInv /\ AnswersInv

\* Nothing happens in the parser, and the main thread neither.
LEMMA QuietTyped ==
  ASSUME ParserTyped, EarlyInv, EffectInv, UNCHANGED <<clientVars, pipes, nodeVars>>,
         UNCHANGED <<tsconfigIndex, todo>>, step' = step \/ step' = "done",
         step # "html" => Typed' = Typed
  PROVE  ParserTyped'
<1> USE DEF clientVars, pipes, nodeVars, stateVars, batchVars
<1>1. CASE step = "html"
  <2>1. pc = "idle" /\ project = NoProject
    BY <1>1 DEF EarlyInv
  <2>2. step' \in {"html", "done"}
    BY <1>1
  <2>3. ProjectInv'
    BY <2>1, <2>2 DEF ProjectInv, Before, Working
  <2>4. AheadInv'
    BY <1>1, <2>2 DEF ParserTyped, AheadInv, Before, Working
  <2>5. AnswersInv'
    BY <2>1, <2>2 DEF AnswersInv, Answering, Waiting
  <2> QED BY <2>3, <2>4, <2>5 DEF ParserTyped
<1>2. CASE step # "html" /\ step' = step
  <2>1. ProjectInv' /\ AheadInv'
    BY <1>2 DEF ParserTyped, ProjectInv, AheadInv, Current, InProject, ThisTsConfig
  <2>2. AnswersInv'
    BY <1>2 DEF ParserTyped, AnswersInv, RightAnswer, Answering, Asked, Current, InProject,
       ThisTsConfig
  <2> QED BY <2>1, <2>2 DEF ParserTyped
<1>3. CASE step # "html" /\ step' = "done"
  <2>1. ProjectInv' /\ AheadInv'
    BY <1>3 DEF ParserTyped, ProjectInv, AheadInv, Before, Working
  <2>2. AnswersInv'
    BY <1>3 DEF AnswersInv, RightAnswer, Waiting
  <2> QED BY <2>1, <2>2 DEF ParserTyped
<1> QED BY <1>2, <1>3, <1>1

\* The client does not touch what the process remembers.
LEMMA ClientLeaves ==
  ASSUME ProjectInv, AheadInv, UNCHANGED buildVars, UNCHANGED <<nodeVars, handle>>
  PROVE  ProjectInv' /\ AheadInv'
BY DEF ProjectInv, AheadInv, buildVars, nodeVars, stateVars, batchVars, Typed, Current, InProject,
   ThisTsConfig

\* The call the main thread waits for is about its project.
LEMMA AskedStays ==
  ASSUME BuildInv, OrderInv, AnswersInv, pc # "idle", step # "done", UNCHANGED buildVars,
         \/ pc' # "idle" /\ UNCHANGED call
         \/ pc' = "idle" /\ result'.call = call
  PROVE  step' \in {"owning", "opening", "closing"} => (InProject /\ Asked.tsConfig = ThisTsConfig)'
BY DEF AnswersInv, Asked, buildVars, InProject, ThisTsConfig

\* A call of the client ends in an exception.
LEMMA ThrowsTyped ==
  ASSUME BuildInv, OrderInv, ParserTyped, pc # "idle", step # "done", UNCHANGED buildVars,
         NEW error \in Errors, NEW unread, Throw(error, unread)
  PROVE  ParserTyped'
<1>1. Return(error, NoResponse) /\ UNCHANGED <<handle, nodeVars>>
  BY CallInProgress DEF Throw
<1>2. result' = [call |-> call, outcome |-> error, response |-> NoResponse] /\ pc' = "idle"
      /\ error # "ok"
  <2>1. "ok" \notin Errors
    BY DEF Errors
  <2> QED BY <1>1, <2>1 DEF Return
<1>3. AnswersInv'
  <2>1. step' \in {"owning", "opening", "closing"} => (InProject /\ Asked.tsConfig = ThisTsConfig)'
    BY <1>2, AskedStays DEF ParserTyped
  <2> QED BY <1>2, <2>1 DEF AnswersInv, Answering
<1> QED BY <1>1, <1>3, ClientLeaves DEF ParserTyped

\* A step of the client that goes on, with no answer in the pipe.
LEMMA GoesOnTyped ==
  ASSUME BuildInv, OrderInv, ParserTyped, pc # "idle", step # "done", UNCHANGED buildVars,
         pc' # "idle", UNCHANGED <<call, handle, nodeVars>>,
         pc' # "read" \/ stdout' = <<>>
  PROVE  ParserTyped'
<1>1. AnswersInv'
  <2>1. step' \in {"owning", "opening", "closing"} => (InProject /\ Asked.tsConfig = ThisTsConfig)'
    BY AskedStays DEF ParserTyped
  <2> QED BY <2>1 DEF AnswersInv, Answering
<1> QED BY <1>1, ClientLeaves DEF ParserTyped

LEMMA ReadTyped ==
  ASSUME BuildInv, OrderInv, EffectInv, ParserTyped, step # "done", UNCHANGED buildVars, ReadResponse
  PROVE  ParserTyped'
<1>1. pc = "read" /\ stdout # <<>> /\ pc # "idle" /\ "CatastrophicError" \in Errors
  BY DEF ReadResponse, Errors
<1> DEFINE expected == Head(stdout).type = ExpectedType[request.command]
<1>2. CASE ~expected /\ Throw("CatastrophicError", Tail(stdout))
  BY <1>1, <1>2, ThrowsTyped
<1>3. CASE /\ pc' = "check" /\ UNCHANGED <<call, result, handle, stdin, nodeVars>>
  BY <1>1, <1>3, GoesOnTyped
<1>4. CASE /\ expected /\ request # Metadata
           /\ Return("ok", Head(stdout)) /\ UNCHANGED <<handle, metadata, stdin, nodeVars>>
  <2>1. request = call
    BY <1>1, <1>4, CallInProgress
  <2>2. RightAnswer(Head(stdout))
    BY <1>1, <1>4, <2>1 DEF ParserTyped, AnswersInv, Answering
  <2>3. result' = [call |-> call, outcome |-> "ok", response |-> Head(stdout)] /\ pc' = "idle"
    BY <1>4 DEF Return
  <2>4. RightAnswer(result.response)'
    BY <2>2, <2>3 DEF RightAnswer, buildVars, Typed, Current, InProject, ThisTsConfig
  <2>5. AnswersInv'
    <3>1. step' \in {"owning", "opening", "closing"} => (InProject /\ Asked.tsConfig = ThisTsConfig)'
      BY <1>1, <2>3, AskedStays DEF ParserTyped
    <3> QED BY <2>3, <2>4, <3>1 DEF AnswersInv, Answering
  <2> QED BY <1>4, <2>5, ClientLeaves DEF ParserTyped
<1> QED BY <1>2, <1>3, <1>4 DEF ReadResponse

\* A new process knows nothing: so it can only be started before the first
\* project, or when there is none.
LEMMA StartTyped ==
  ASSUME BuildInv, OrderInv, ParserTyped, step # "done", UNCHANGED buildVars, StartProcess
  PROVE  ParserTyped'
<1>1. /\ pc = "start" /\ pc' = "check" /\ UNCHANGED <<call, result>> /\ ~handle /\ handle'
      /\ project' = NoProject /\ program' = {} /\ pendingFiles' = <<>> /\ pendingFileIndex' = 0
      /\ pendingResponse' = NoResponse
  BY DEF StartProcess, FreshProcess, FreshState, BuildInv, ParserInv, Lockstep
<1>2. step \in Working => Current = NoProject
  BY <1>1, CurrentIs DEF ParserTyped, ProjectInv
<1>3. ProjectInv'
  BY <1>1, <1>2 DEF ProjectInv, buildVars, Current, InProject, ThisTsConfig
<1>4. AheadInv'
  BY <1>1 DEF AheadInv
<1>5. AnswersInv'
  <2>1. step' \in {"owning", "opening", "closing"} => (InProject /\ Asked.tsConfig = ThisTsConfig)'
    BY <1>1, AskedStays DEF ParserTyped
  <2> QED BY <1>1, <2>1 DEF AnswersInv, Answering
<1> QED BY <1>3, <1>4, <1>5 DEF ParserTyped

LEMMA ClientTyped ==
  ASSUME BuildInv, OrderInv, EffectInv, ParserTyped, step # "done", UNCHANGED buildVars, ClientStep
  PROVE  ParserTyped'
<1>1. CASE ResetNothing
  BY <1>1, CallInProgress DEF ResetNothing
<1>2. CASE StartFails
  BY <1>2, ThrowsTyped, ParserAssumption DEF StartFails, ParserAssumption
<1>3. CASE CheckAlive
  <2>1. pc = "check" /\ ErrorOfExit(exitCode) \in Errors
    BY <1>3 DEF CheckAlive, ErrorOfExit, Errors
  <2>2. CASE Throw(ErrorOfExit(exitCode), stdout)
    BY <2>1, <2>2, ThrowsTyped
  <2>3. CASE pc' = "write" /\ UNCHANGED <<call, request, result, handle, pipes, nodeVars>>
    BY <2>1, <2>3, GoesOnTyped
  <2> QED BY <1>3, <2>2, <2>3 DEF CheckAlive
<1>4. CASE WriteRequest
  <2>1. pc = "write" /\ stdout = <<>> /\ "CatastrophicError" \in Errors
    BY <1>4 DEF WriteRequest, BuildInv, ParserInv, Lockstep, PipesInStep, Errors
  <2>2. CASE Throw("CatastrophicError", stdout)
    BY <2>1, <2>2, ThrowsTyped
  <2>3. CASE pc' = "read" /\ UNCHANGED <<call, request, result, handle, stdout, nodeVars>>
    BY <2>1, <2>3, GoesOnTyped
  <2> QED BY <1>4, <2>2, <2>3 DEF WriteRequest
<1>5. CASE ReadEndOfStream
  <2>1. pc = "read" /\ ErrorOfExit(exitCode) \in Errors /\ "CatastrophicError" \in Errors
    BY <1>5 DEF ReadEndOfStream, ErrorOfExit, Errors
  <2> QED BY <1>5, <2>1, ThrowsTyped DEF ReadEndOfStream
<1> QED BY <1>1, <1>2, <1>3, <1>4, <1>5, StartTyped, ReadTyped DEF ClientStep

\* The process ends, and what it knew is gone.
LEMMA ExitTyped ==
  ASSUME ParserTyped, UNCHANGED buildVars, UNCHANGED clientVars, NEW code, Exit(code),
         UNCHANGED stdout
  PROVE  ParserTyped'
<1>1. /\ project' = NoProject /\ program' = {} /\ pendingFiles' = <<>> /\ pendingFileIndex' = 0
      /\ pendingResponse' = NoResponse /\ node' = "exited"
  BY DEF Exit, FreshState
<1>2. ProjectInv'
  BY <1>1 DEF ParserTyped, ProjectInv, buildVars, clientVars, InProject
<1>3. AheadInv'
  BY <1>1 DEF AheadInv
<1>4. AnswersInv'
  BY DEF ParserTyped, AnswersInv, RightAnswer, Answering, Asked, Typed, Current, InProject,
     ThisTsConfig, buildVars, clientVars
<1> QED BY <1>2, <1>3, <1>4 DEF ParserTyped

\* The process answers, or works on its own.
LEMMA ProcessTyped ==
  ASSUME ParserTyped, UNCHANGED buildVars, UNCHANGED clientVars, ProjectInv', AheadInv',
         \/ UNCHANGED stdout
         \/ \E r : stdout' = <<r>> /\
              (request = call /\ r.type = ExpectedType[call.command] => RightAnswer(r))
  PROVE  ParserTyped'
<1>1. CASE UNCHANGED stdout
  BY <1>1 DEF ParserTyped, AnswersInv, RightAnswer, Answering, Asked, Typed, Current, InProject,
     ThisTsConfig, buildVars, clientVars
<1>2. CASE \E r : stdout' = <<r>> /\
              (request = call /\ r.type = ExpectedType[call.command] => RightAnswer(r))
  <2>1. PICK r : stdout' = <<r>> /\
              (request = call /\ r.type = ExpectedType[call.command] => RightAnswer(r))
    BY <1>2
  <2>2. Head(stdout') = r
    BY <2>1
  <2>3. request' = call' /\ Head(stdout').type = ExpectedType[call'.command]
          => RightAnswer(Head(stdout))'
    BY <2>1, <2>2 DEF RightAnswer, Typed, Current, InProject, ThisTsConfig, buildVars, clientVars
  <2>4. /\ step' \in {"owning", "opening", "closing"} => (InProject /\ Asked.tsConfig = ThisTsConfig)'
        /\ step' \in Waiting /\ pc' = "idle" /\ result'.outcome = "ok" => RightAnswer(result.response)'
    BY DEF ParserTyped, AnswersInv, RightAnswer, Asked, Typed, Current, InProject, ThisTsConfig,
       buildVars, clientVars
  <2> QED BY <2>3, <2>4 DEF ParserTyped, AnswersInv
<1> QED BY <1>1, <1>2

\* A request is handled while the main thread waits for that call.
LEMMA HandlingTyped ==
  ASSUME BuildInv, OrderInv, step # "done", NEW command, Handling(command),
         command # "get-metadata"
  PROVE  /\ pc = "read" /\ stdin = <<request>> /\ stdout = <<>> /\ node = "running"
         /\ UNCHANGED clientVars /\ UNCHANGED exists
         /\ request = call /\ step \in Waiting /\ CallAt[step] = command /\ Asked = call
         /\ call \in Call /\ command # "reset"
<1>1. pc = "read" /\ stdin = <<request>> /\ stdout = <<>> /\ node = "running"
  BY DEF Handling, BuildInv, ParserInv, Lockstep, PipesInStep
<1>2. request.command = command /\ UNCHANGED clientVars /\ UNCHANGED exists
  BY <1>1 DEF Handling
<1>3. request = call
  BY <1>1, <1>2, CallInProgress
<1> QED BY <1>1, <1>2, <1>3, CallInProgress DEF Asked

\* Where the main thread waits for which call.
LEMMA CallsOf ==
  ASSUME NEW s \in Waiting
  PROVE  /\ CallAt[s] = "get-own-files" => s = "owning"
         /\ CallAt[s] = "open-project" => s = "opening"
         /\ CallAt[s] = "prepare-files" => s = "preparing"
         /\ CallAt[s] = "parse" => s = "parsing"
         /\ CallAt[s] = "close-project" => s = "closing"
         /\ CallAt[s] = "get-type-table" => s = "typing"
BY DEF CallAt, Waiting

\* What an answer says of the files that may have types.
LEMMA LoadsTyped ==
  ASSUME TypedFilesStay, NEW p
  PROVE  /\ Included(p) \cap Typed = OwnFiles[p] \cap Typed
         /\ Load(p) \cap Typed = ProgramFiles[p] \cap Typed
BY DEF TypedFilesStay, Included, Load

\* A file of the list is parsed with its project, by a program that has it.
LEMMA AstIsTyped ==
  ASSUME BuildInv, ParserTyped, ListedInv, step \in Working, node = "running",
         Redirected \cap (TypeScript \cup Snippet) = {},
         NEW f \in todo, NEW prog,
         project # NoProject => Typed \cap ProgramFiles[project] \subseteq prog
  PROVE  AstOf(f, prog).project = Current
<1>1. f \in Typed /\ (InProject => f \in ProgramFiles[ThisTsConfig])
  BY DEF ListedInv
<1>2. f \notin Redirected
  BY <1>1 DEF Typed, BuildInv, BuildTypeOK
<1>3. project = Current
  BY DEF ParserTyped, ProjectInv
<1>4. CASE InProject
  <2>1. Current = ThisTsConfig /\ Current # NoProject
    BY <1>4, CurrentIs
  <2>2. InProgram(f, prog)
    BY <1>1, <1>2, <1>3, <1>4, <2>1 DEF InProgram
  <2> QED BY <1>3, <2>2 DEF AstOf
<1>5. CASE ~InProject
  <2>1. Current = NoProject
    BY <1>5, CurrentIs
  <2> QED BY <1>3, <2>1 DEF AstOf, InProgram
<1> QED BY <1>4, <1>5

LEMMA HandleParseTyped ==
  ASSUME BuildInv, OrderInv, ParserTyped, ListedInv, step # "done", UNCHANGED buildVars,
         Redirected \cap (TypeScript \cup Snippet) = {}, HandleParse
  PROVE  ParserTyped'
<1>1. /\ pc = "read" /\ stdin = <<request>> /\ stdout = <<>> /\ node = "running"
      /\ UNCHANGED clientVars /\ request = call /\ step = "parsing"
  BY HandlingTyped, CallsOf DEF HandleParse
<1>2. CASE \E code : Exit(code) /\ UNCHANGED stdout
  BY <1>1, <1>2, ExitTyped
<1> DEFINE f == Head(stdin).file
<1>3. CASE /\ NextFileIs(f)
           /\ \/ pendingResponse # NoResponse /\ Answer(pendingResponse)
              \/ Answer(AstOf(f, program))
           /\ pendingFileIndex' = pendingFileIndex + 1 /\ pendingResponse' = NoResponse
           /\ UNCHANGED <<node, project, program, pendingFiles>>
  <2>1. f = call.file /\ f \in todo
    BY <1>1, CallInProgress DEF IsNext
  <2>2. step \in Working
    BY <1>1 DEF Working
  <2>3. PICK r : /\ stdout' = <<r>>
                 /\ r = AstOf(f, program) \/ (pendingResponse # NoResponse /\ r = pendingResponse)
    BY <1>1, <1>3 DEF Answer
  <2>4. r.project = Current
    <3>1. CASE r = AstOf(f, program)
      BY <1>1, <2>1, <2>2, <3>1, AstIsTyped DEF ParserTyped, ProjectInv
    <3>2. CASE pendingResponse # NoResponse /\ r = pendingResponse
      <4>1. pendingResponse.file = f
        BY <1>3, <3>2 DEF BuildInv, ParserInv, ReadAheadIsNext, NextFileIs
      <4> QED BY <2>1, <2>2, <3>2, <4>1 DEF ParserTyped, AheadInv
    <3> QED BY <2>3, <3>1, <3>2
  <2>5. RightAnswer(r)
    BY <1>1, <2>4 DEF RightAnswer
  <2>6. ProjectInv'
    BY <1>1, <1>3 DEF ParserTyped, ProjectInv, buildVars, clientVars, Typed, Current, InProject,
       ThisTsConfig
  <2>7. AheadInv'
    BY <1>1, <1>3 DEF AheadInv, Before, buildVars
  <2> QED BY <1>1, <2>3, <2>5, <2>6, <2>7, ProcessTyped
<1> QED BY <1>2, <1>3 DEF HandleParse

LEMMA HandleOpenTyped ==
  ASSUME BuildInv, OrderInv, ParserTyped, TypedFilesStay, step # "done", UNCHANGED buildVars,
         HandleOpenProject \/ HandleGetOwnFiles \/ HandleCloseProject
  PROVE  ParserTyped'
<1>1. CASE HandleGetOwnFiles
  <2>1. /\ pc = "read" /\ stdin = <<request>> /\ stdout = <<>> /\ UNCHANGED clientVars
        /\ request = call /\ step = "owning" /\ Asked = call
    BY <1>1, HandlingTyped, CallsOf DEF HandleGetOwnFiles
  <2>2. call.tsConfig = ThisTsConfig
    BY <2>1 DEF ParserTyped, AnswersInv
  <2> DEFINE r == [type |-> "file-list", ownFiles |-> Included(ThisTsConfig)]
  <2>3. stdout' = <<r>> /\ UNCHANGED nodeVars
    BY <1>1, <2>1, <2>2 DEF HandleGetOwnFiles, Answer
  <2>4. RightAnswer(r)
    BY <2>1, LoadsTyped DEF RightAnswer
  <2>5. UNCHANGED handle
    BY <2>1 DEF clientVars
  <2> QED BY <2>1, <2>3, <2>4, <2>5, ClientLeaves, ProcessTyped DEF ParserTyped
<1>2. CASE HandleOpenProject
  <2>1. /\ pc = "read" /\ stdin = <<request>> /\ stdout = <<>> /\ UNCHANGED clientVars
        /\ request = call /\ step = "opening" /\ Asked = call
    BY <1>2, HandlingTyped, CallsOf DEF HandleOpenProject
  <2>2. call.tsConfig = ThisTsConfig
    BY <2>1 DEF ParserTyped, AnswersInv
  <2> DEFINE p == ThisTsConfig
             r == [type |-> "project-opened", ownFiles |-> Included(p), allFiles |-> Load(p)]
  <2>3. /\ stdout' = <<r>> /\ project' = p /\ program' = Load(p)
        /\ UNCHANGED <<pendingFiles, pendingFileIndex, pendingResponse>>
    BY <1>2, <2>1, <2>2 DEF HandleOpenProject, Answer, batchVars
  <2>4. RightAnswer(r)
    BY <2>1, LoadsTyped DEF RightAnswer
  <2>5. Typed' = Typed /\ UNCHANGED <<step, todo, tsconfigIndex, exists>>
    BY <1>2 DEF buildVars, Typed, HandleOpenProject, Handling
  <2>6. ProjectInv'
    BY <2>1, <2>3, <2>5, LoadsTyped DEF ProjectInv, Before, Working
  <2>7. AheadInv'
    BY <2>1, <2>3, <2>5 DEF ParserTyped, AheadInv, Before, Working
  <2> QED BY <2>1, <2>3, <2>4, <2>6, <2>7, ProcessTyped
<1>3. CASE HandleCloseProject
  <2>1. /\ stdout = <<>> /\ UNCHANGED clientVars /\ request = call /\ step = "closing"
    BY <1>3, HandlingTyped, CallsOf DEF HandleCloseProject
  <2>2. \E r : stdout' = <<r>>
    BY <1>3, <2>1 DEF HandleCloseProject, Answer
  <2>3. /\ \/ UNCHANGED <<project, program>>
           \/ project' = NoProject
        /\ UNCHANGED <<pendingFiles, pendingFileIndex, pendingResponse>>
    BY <1>3 DEF HandleCloseProject, batchVars
  <2>4. Typed' = Typed /\ UNCHANGED <<step, todo, tsconfigIndex>>
    BY DEF buildVars, Typed
  <2>5. ProjectInv'
    BY <2>1, <2>3, <2>4 DEF ParserTyped, ProjectInv, Before, Working
  <2>6. AheadInv'
    BY <2>1, <2>3, <2>4 DEF ParserTyped, AheadInv, Before, Working
  <2>7. \A r : RightAnswer(r)
    BY <2>1 DEF RightAnswer
  <2> QED BY <2>1, <2>2, <2>5, <2>6, <2>7, ProcessTyped
<1> QED BY <1>1, <1>2, <1>3

LEMMA HandleOtherTyped ==
  ASSUME BuildInv, OrderInv, ParserTyped, step # "done", UNCHANGED buildVars,
         HandlePrepareFiles \/ HandleGetTypeTable \/ HandleGetMetadata
  PROVE  ParserTyped'
<1>1. CASE HandlePrepareFiles
  <2>1. /\ stdout = <<>> /\ UNCHANGED clientVars /\ request = call /\ step = "preparing"
    BY <1>1, HandlingTyped, CallsOf DEF HandlePrepareFiles
  <2>2. \E r : stdout' = <<r>>
    BY <1>1, <2>1 DEF HandlePrepareFiles, Answer
  <2>3. /\ UNCHANGED <<node, project, program>> /\ pendingResponse' = NoResponse
    BY <1>1 DEF HandlePrepareFiles
  <2>4. Typed' = Typed /\ UNCHANGED <<step, todo, tsconfigIndex>>
    BY DEF buildVars, Typed
  <2>5. ProjectInv'
    BY <2>1, <2>3, <2>4 DEF ParserTyped, ProjectInv, Current, InProject, ThisTsConfig, clientVars
  <2>6. AheadInv'
    BY <2>1, <2>3, <2>4 DEF AheadInv, Before
  <2>7. \A r : RightAnswer(r)
    BY <2>1 DEF RightAnswer
  <2> QED BY <2>1, <2>2, <2>5, <2>6, <2>7, ProcessTyped
<1>2. CASE HandleGetTypeTable
  <2>1. /\ stdout = <<>> /\ UNCHANGED clientVars /\ request = call /\ step = "typing"
    BY <1>2, HandlingTyped, CallsOf DEF HandleGetTypeTable
  <2>2. (\E r : stdout' = <<r>>) /\ UNCHANGED nodeVars
    BY <1>2, <2>1 DEF HandleGetTypeTable, Answer
  <2>3. \A r : RightAnswer(r)
    BY <2>1 DEF RightAnswer
  <2>4. UNCHANGED handle
    BY <2>1 DEF clientVars
  <2> QED BY <2>1, <2>2, <2>3, <2>4, ClientLeaves, ProcessTyped DEF ParserTyped
<1>3. CASE HandleGetMetadata
  <2>1. /\ pc = "read" /\ stdin = <<request>> /\ stdout = <<>> /\ UNCHANGED clientVars
    BY <1>3, HandlingRequest DEF HandleGetMetadata
  <2>2. request.command = "get-metadata"
    BY <1>3, <2>1 DEF HandleGetMetadata, Handling
  <2>3. request # call
    BY <2>1, <2>2, CallInProgress, WaitingCalls DEF CallAt, Waiting
  <2>4. (\E r : stdout' = <<r>>) /\ UNCHANGED nodeVars
    BY <1>3, <2>1 DEF HandleGetMetadata, Answer
  <2>5. UNCHANGED handle
    BY <2>1 DEF clientVars
  <2> QED BY <2>1, <2>3, <2>4, <2>5, ClientLeaves, ProcessTyped DEF ParserTyped
<1> QED BY <1>1, <1>2, <1>3

\* Parsing ahead, with a compiler that may have been restarted.
LEMMA PrepareTyped ==
  ASSUME BuildInv, ParserTyped, ListedInv, TypedFilesStay, step # "done", UNCHANGED buildVars,
         Redirected \cap (TypeScript \cup Snippet) = {}, PrepareNextFile
  PROVE  ParserTyped'
<1>1. UNCHANGED clientVars /\ UNCHANGED stdout /\ UNCHANGED exists /\ node = "running"
  BY DEF PrepareNextFile
<1>2. CASE UNCHANGED <<node, stateVars>>
  <2>1. ProjectInv' /\ AheadInv'
    BY <1>1, <1>2 DEF ParserTyped, ProjectInv, AheadInv, buildVars, clientVars, stateVars,
       batchVars, Typed, Current, InProject, ThisTsConfig
  <2> QED BY <1>1, <2>1, ProcessTyped
<1>3. CASE \E code : Exit(code)
  BY <1>1, <1>3, ExitTyped
<1>4. CASE ~UNCHANGED <<node, stateVars>> /\ ~\E code : Exit(code)
  <2> DEFINE f == pendingFiles[pendingFileIndex + 1]
  <2>1. PICK prog \in {Load(project), program} :
          /\ pendingResponse = NoResponse /\ pendingFileIndex < Len(pendingFiles)
          /\ prog = Load(project) => project # NoProject \/ prog = program
          /\ program' = prog /\ pendingResponse' = AstOf(f, prog)
          /\ UNCHANGED <<node, project, pendingFiles, pendingFileIndex>>
    BY <1>4 DEF PrepareNextFile
  <2>2. project # NoProject => Typed \cap ProgramFiles[project] \subseteq prog
    BY <2>1, LoadsTyped DEF ParserTyped, ProjectInv
  <2>3. ProjectInv'
    BY <1>1, <2>1, <2>2 DEF ParserTyped, ProjectInv, buildVars, clientVars, Typed, Current,
       InProject, ThisTsConfig
  <2>4. ~(pendingFileIndex >= Len(pendingFiles))
    <3>1. pendingFileIndex \in Nat /\ Len(pendingFiles) \in Nat
      BY DEF BuildInv, ParserInv, TypeOK
    <3> QED BY <2>1, <3>1
  <2>5. step \notin Before \cup {"open", "opening", "prepare", "closing", "typing"}
    BY <2>4 DEF ParserTyped, AheadInv
  <2>6. pendingResponse'.file = f
    BY <2>1 DEF AstOf
  <2>7. step \in Working /\ f \in todo => AstOf(f, prog).project = Current
    BY <1>1, <2>2, AstIsTyped
  <2>8. AheadInv'
    BY <2>1, <2>5, <2>6, <2>7 DEF AheadInv, buildVars, Current, InProject, ThisTsConfig
  <2> QED BY <1>1, <2>3, <2>8, ProcessTyped
<1> QED BY <1>2, <1>3, <1>4

LEMMA ParserStepTyped ==
  ASSUME BuildInv, OrderInv, EffectInv, ParserTyped, ListedInv, TypedFilesStay,
         Redirected \cap (TypeScript \cup Snippet) = {}, ParserStep
  PROVE  ParserTyped'
<1>1. step # "done" /\ Internal /\ UNCHANGED buildVars
  BY DEF ParserStep
<1>2. CASE ClientStep
  BY <1>1, <1>2, ClientTyped
<1>3. CASE HandleLine
  <2>1. ~HandleReset
    BY <1>1, HandlingTyped DEF HandleReset
  <2> QED BY <1>1, <1>3, <2>1, HandleParseTyped, HandleOpenTyped, HandleOtherTyped DEF HandleLine
<1>4. CASE PrepareNextFile
  BY <1>1, <1>4, PrepareTyped
<1>5. CASE Crash
  BY <1>1, <1>5, ExitTyped DEF Crash
<1> QED BY <1>1, <1>2, <1>3, <1>4, <1>5 DEF Internal


-----------------------------------------------------------------------------
(* The main thread, between the calls of the parser.                       *)

\* Where nothing is parsed ahead.
Apart == Before \cup {"open", "opening", "prepare", "closing", "typing"}

NothingAhead == pendingResponse = NoResponse /\ pendingFileIndex >= Len(pendingFiles)

\* An exhausted list is one without a file to parse ahead.
LEMMA ListIsDone ==
  ASSUME BuildInv, OrderInv, EffectInv, step = "parse", todo = {}
  PROVE  NothingAhead
<1>1. /\ pendingFiles \in Seq(File) /\ pendingFileIndex \in Nat
  BY DEF BuildInv, ParserInv, TypeOK
<1>2. CASE node = "running"
  <2>1. SubSeq(pendingFiles, pendingFileIndex + 1, Len(pendingFiles)) = Sorted({})
    BY <1>2 DEF OrderInv, ListInv, RestOfList
  <2>2. Len(Sorted({})) = 0
    <3>1. Cardinality({}) = 0
      BY FS_EmptySet
    <3>2. Sorted({}) = [i \in 1 .. 0 |-> CHOOSE f \in {} : Cardinality(Earlier(f, {})) = i - 1]
      BY <3>1 DEF Sorted
    <3>3. Sorted({}) \in Seq(File)
      BY ListOfTodo DEF Listing
    <3> QED BY <3>2, <3>3
  <2>3. pendingFileIndex >= Len(pendingFiles)
    BY <1>1, <2>1, <2>2
  <2>4. pendingResponse = NoResponse
    <3>1. pendingResponse # NoResponse => pendingFileIndex < Len(pendingFiles)
      BY DEF BuildInv, ParserInv, ReadAheadIsNext, NextFileIs
    <3> QED BY <1>1, <2>3, <3>1
  <2> QED BY <2>3, <2>4 DEF NothingAhead
<1>3. CASE node # "running"
  BY <1>1, <1>3 DEF EffectInv, StateIsLost, NothingAhead
<1> QED BY <1>2, <1>3

LEMMA AskTyped ==
  ASSUME BuildInv, OrderInv, EffectInv, ParserTyped, NEW from, NEW c, NEW to,
         AskParser(from, c, to),
         <<from, to>> \in {<<"own", "owning">>, <<"open", "opening">>, <<"open", "typing">>,
                           <<"prepare", "preparing">>, <<"read", "parsing">>, <<"parse", "closing">>},
         to = "closing" => todo = {},
         to \in {"owning", "opening", "closing"} => InProject /\ c.tsConfig = ThisTsConfig
  PROVE  ParserTyped'
<1>1. /\ step = from /\ step' = to /\ pc = "idle" /\ pc' # "idle" /\ call' = c
      /\ UNCHANGED <<handle, pipes, nodeVars, todo, tsconfigIndex, snippets>>
  BY DEF AskParser, At, Invoke
<1>2. UNCHANGED <<node, project, program, pendingFiles, pendingFileIndex, pendingResponse>>
  BY <1>1 DEF nodeVars, stateVars, batchVars
<1>3. to = "closing" => NothingAhead
  BY <1>1, ListIsDone
<1>4. ProjectInv'
  BY <1>1, <1>2 DEF ParserTyped, ProjectInv, Before, Working, Typed, Current, InProject, ThisTsConfig
<1>5. AheadInv'
  BY <1>1, <1>2, <1>3 DEF ParserTyped, AheadInv, Before, Working, Current, InProject, ThisTsConfig,
     NothingAhead
<1>6. AnswersInv'
  BY <1>1, IdleMeansEmpty DEF AnswersInv, Answering, Asked, InProject, ThisTsConfig, pipes
<1> QED BY <1>4, <1>5, <1>6 DEF ParserTyped

\* A step that the parser has no part in.
LEMMA LocalTyped ==
  ASSUME BuildInv, ParserTyped, pc = "idle", UNCHANGED <<clientVars, nodeVars>>, step' \notin Waiting,
         Typed' = Typed \/ project = NoProject,
         step' \in Before \cup {"open"} => project = NoProject,
         step' \in Apart => NothingAhead,
         step' \in Working =>
           /\ node = "running" => project = Current'
           /\ InProject' => handle
           /\ pendingResponse # NoResponse /\ pendingResponse.file \in todo' =>
                pendingResponse.project = Current'
  PROVE  ParserTyped'
<1>1. UNCHANGED <<pc, handle, node, project, program, pendingFiles, pendingFileIndex, pendingResponse>>
  BY DEF clientVars, nodeVars, stateVars, batchVars
<1>2. ProjectInv'
  BY <1>1 DEF ParserTyped, ProjectInv, Waiting
<1>3. AheadInv'
  BY <1>1 DEF AheadInv, NothingAhead, Apart
<1>4. AnswersInv'
  BY <1>1 DEF AnswersInv, Answering, Waiting
<1> QED BY <1>2, <1>3, <1>4 DEF ParserTyped

LEMMA OpenedTyped ==
  ASSUME BuildInv, OrderInv, EffectInv, ParserTyped, OpenedTsConfig, Typed' = Typed
  PROVE  ParserTyped'
<1>1. /\ step = "opening" /\ step' = "prepare" /\ pc = "idle" /\ result.outcome = "ok"
      /\ UNCHANGED <<parserVars, tsconfigIndex>>
  BY DEF OpenedTsConfig, Answered, At, Go
<1>2. /\ "opening" \in Waiting /\ CallAt["opening"] = "open-project"
  BY DEF Waiting, CallAt
<1>3. /\ handle /\ result # NoResult /\ result.call.command = "open-project" /\ InProject
      /\ result.call.tsConfig = ThisTsConfig
  BY <1>1, <1>2 DEF OrderInv, CallInv, ProcessInv, Asked, ParserTyped, AnswersInv
<1>4. node = "running" => project = ThisTsConfig
  BY <1>1, <1>3 DEF EffectInv, SuccessMeansEffect, HasTakenEffect, Idle
<1>5. NothingAhead
  BY <1>1 DEF ParserTyped, AheadInv, NothingAhead
<1>6. Current' = ThisTsConfig
  BY <1>1, <1>3 DEF Current, InProject, ThisTsConfig
<1> QED BY <1>1, <1>3, <1>4, <1>5, <1>6, LocalTyped DEF parserVars, Before, Waiting, NothingAhead

LEMMA ClosedTyped ==
  ASSUME BuildInv, OrderInv, EffectInv, ParserTyped, ClosedTsConfig
  PROVE  ParserTyped'
<1>1. /\ step = "closing" /\ step' = "open" /\ pc = "idle" /\ result.outcome = "ok"
      /\ UNCHANGED parserVars
  BY DEF ClosedTsConfig, Answered, At, Go
<1>2. /\ "closing" \in Waiting /\ CallAt["closing"] = "close-project"
  BY DEF Waiting, CallAt
<1>3. result # NoResult /\ result.call.command = "close-project"
  BY <1>1, <1>2 DEF OrderInv, CallInv, Asked
<1>4. project = NoProject
  BY <1>1, <1>3 DEF EffectInv, SuccessMeansEffect, HasTakenEffect, Idle, StateIsLost
<1>5. NothingAhead
  BY <1>1 DEF ParserTyped, AheadInv, NothingAhead
<1> QED BY <1>1, <1>4, <1>5, LocalTyped DEF parserVars, Before, Waiting, Working

LEMMA RemainingTyped ==
  ASSUME BuildInv, ParserTyped, TakenInv, RemainingFiles
  PROVE  ParserTyped'
<1>1. /\ step \in {"open", "typing"} /\ step' \in {"kill", "prepare"} /\ pc = "idle"
      /\ UNCHANGED <<parserVars, tsconfigIndex>>
      /\ step = "open" => TsConfigs = <<>>
  BY DEF RemainingFiles, Answered, At, Go
<1>2. ~InProject
  <2>1. CASE step = "open"
    BY <1>1, <2>1 DEF InProject, BuildInv, BuildTypeOK
  <2>2. CASE step = "typing"
    BY <2>2 DEF TakenInv
  <2> QED BY <1>1, <2>1, <2>2
<1>3. ~InProject' /\ Current' = NoProject
  BY <1>1, <1>2 DEF InProject, Current
<1>4. project = NoProject /\ NothingAhead
  BY <1>1 DEF ParserTyped, ProjectInv, AheadInv, NothingAhead
<1> QED BY <1>1, <1>3, <1>4, LocalTyped DEF parserVars, Before, Waiting, NothingAhead

\* The steps that work off a list.
LEMMA ListTyped ==
  ASSUME BuildInv, ParserTyped, Announced \/ NextTypeScriptFile \/ ParsedFile,
         Typed' = Typed
  PROVE  ParserTyped'
<1>1. /\ UNCHANGED <<parserVars, tsconfigIndex>> /\ pc = "idle" /\ step \in Working
      /\ todo' \subseteq todo /\ step' \in {"parse", "read", "done"}
  BY DEF Announced, NextTypeScriptFile, ParsedFile, Go, At, Answered, ExitProgram, Working
<1>2. step' \in Working => /\ node = "running" => project = Current'
                           /\ InProject' => handle
                           /\ pendingResponse # NoResponse /\ pendingResponse.file \in todo' =>
                                pendingResponse.project = Current'
  BY <1>1 DEF ParserTyped, ProjectInv, AheadInv, Current, InProject, ThisTsConfig
<1> QED BY <1>1, <1>2, LocalTyped DEF parserVars, Before, Apart, Waiting

\* The steps before projects are opened, and the inclusion patterns.
LEMMA BeforeTyped ==
  ASSUME BuildInv, ParserTyped, SubmitHtml \/ JoinHtml \/ VerifyInstallation \/ GotOwnFiles
  PROVE  ParserTyped'
<1>1. /\ UNCHANGED parserVars /\ pc = "idle" /\ step \in Before
      /\ step' \in {"html", "verify", "rest", "own", "open", "unwind"}
  BY DEF SubmitHtml, SubmitFile, JoinHtml, VerifyInstallation, GotOwnFiles, Go, At, Answered, Before
<1>2. project = NoProject /\ NothingAhead
  BY <1>1 DEF ParserTyped, ProjectInv, AheadInv, NothingAhead
<1> QED BY <1>1, <1>2, LocalTyped DEF parserVars, Before, Working, Apart, Waiting

\* The steps after the TypeScript files, and the ends.
LEMMA AfterTyped ==
  ASSUME BuildInv, ParserTyped, Typed' = Typed,
         \/ SubmitRest \/ EndOfSource \/ SubmitExtern \/ EndOfExterns \/ ParserThrew \/ Finish
         \/ ParseFile /\ step' = "done"
  PROVE  ParserTyped'
<1>1. /\ UNCHANGED parserVars /\ (pc = "idle" \/ step' = "done")
      /\ step' \in {"rest", "externs", "shutdown", "unwind", "done"}
  BY DEF SubmitRest, SubmitFile, EndOfSource, SubmitExtern, EndOfExterns, ParserThrew, Finish,
     ParseFile, AskParser, ExitProgram, Go, At
<1>2. UNCHANGED <<clientVars, pipes, nodeVars>>
  BY <1>1 DEF parserVars
<1>3. CASE step' = "done"
  <2>1. ProjectInv' /\ AheadInv' /\ AnswersInv'
    BY <1>2, <1>3 DEF ParserTyped, ProjectInv, AheadInv, AnswersInv, RightAnswer, Before, Working,
       Waiting, clientVars, nodeVars, stateVars, batchVars
  <2> QED BY <2>1 DEF ParserTyped
<1>4. CASE step' # "done"
  BY <1>1, <1>2, <1>4, LocalTyped DEF Before, Working, Apart, Waiting
<1> QED BY <1>3, <1>4

\* The process is killed.
LEMMA StopTyped ==
  ASSUME StopParser
  PROVE  ParserTyped'
<1>1. /\ step' = "rest" /\ pc' = "idle" /\ project' = NoProject
  BY DEF StopParser, KillProcess, Destroy, FreshProcess, FreshState
<1> QED BY <1>1 DEF ParserTyped, ProjectInv, AheadInv, AnswersInv, Before, Working, Waiting, Answering

\* The main thread asks something.
LEMMA AsksTyped ==
  ASSUME BuildInv, OrderInv, EffectInv, ParserTyped,
         \/ GetOwnFiles \/ OpenTsConfig \/ Announce \/ CloseTsConfig \/ GetTypeTable
         \/ ParseFile /\ step' # "done"
  PROVE  ParserTyped'
<1>1. CASE GetOwnFiles
  BY <1>1, AskTyped DEF GetOwnFiles
<1>2. CASE OpenTsConfig
  BY <1>2, AskTyped DEF OpenTsConfig
<1>3. CASE Announce
  BY <1>3, AskTyped DEF Announce
<1>4. CASE CloseTsConfig
  BY <1>4, AskTyped DEF CloseTsConfig
<1>5. CASE GetTypeTable
  BY <1>5, AskTyped DEF GetTypeTable
<1>6. CASE ParseFile /\ step' # "done"
  <2>1. PICK f : AskParser("read", [command |-> "parse", file |-> f], "parsing")
    BY <1>6 DEF ParseFile, ExitProgram
  <2> QED BY <2>1, AskTyped
<1> QED BY <1>1, <1>2, <1>3, <1>4, <1>5, <1>6

LEMMA MainStepTyped ==
  ASSUME BuildInv, OrderInv, EffectInv, ParserTyped, TakenInv, MainStep,
         step # "html" => Typed' = Typed
  PROVE  ParserTyped'
<1>1. CASE SubmitHtml \/ JoinHtml
  BY <1>1, BeforeTyped
<1>2. CASE ~(SubmitHtml \/ JoinHtml)
  <2>1. step # "html"
    BY <1>2 DEF MainStep, SubmitRest, SubmitExtern, SubmitFile,
        VerifyInstallation, GetOwnFiles, GotOwnFiles, OpenTsConfig, OpenedTsConfig, Announce,
        Announced, NextTypeScriptFile, ParseFile, ParsedFile, CloseTsConfig, ClosedTsConfig,
        GetTypeTable, RemainingFiles, StopParser, EndOfSource, EndOfExterns, ParserThrew, Finish,
        AskParser, Go, At, Answered
  <2>2. Typed' = Typed
    BY <2>1
  <2> QED BY <1>2, <2>2, BeforeTyped, OpenedTyped, ClosedTyped, RemainingTyped, ListTyped,
          AfterTyped, StopTyped, AsksTyped DEF MainStep
<1> QED BY <1>1, <1>2

LEMMA StepParserTyped ==
  ASSUME BuildInv, OrderInv, EffectInv, TypedInv, TypedFilesStay, [BuildNext]_vars,
         Redirected \cap (TypeScript \cup Snippet) = {}
  PROVE  ParserTyped'
<1>1. step # "html" => Typed' = Typed
  BY SnippetsStay DEF TypedInv
<1>2. ParserTyped /\ EarlyInv /\ ListedInv /\ TakenInv
  BY DEF TypedInv, ParserTyped
<1>3. CASE PoolStep
  <2>1. UNCHANGED <<clientVars, pipes, nodeVars>>
    BY <1>3 DEF PoolStep, StartJob, CacheHit, CopyCached, CacheMiss, WriteSnippet, RecordSnippet,
        ExtractContents, Commit, Publish, FinishJob, JobThrows, parserVars
  <2>2. (step' = step \/ step' = "done") /\ UNCHANGED <<todo, tsconfigIndex>>
    BY <1>3 DEF PoolStep, StartJob, CacheHit, CopyCached, CacheMiss, WriteSnippet, RecordSnippet,
        ExtractContents, Commit, Publish, FinishJob, JobThrows, OtherThanJob, ExitProgram
  <2> QED BY <1>1, <1>2, <2>1, <2>2, QuietTyped
<1>4. CASE DeleteSource \/ TrimCache \/ UNCHANGED vars
  BY <1>1, <1>2, <1>4, QuietTyped DEF DeleteSource, DeleteFile, TrimCache, OtherThanJob, vars,
     parserVars, buildVars
<1> QED BY <1>1, <1>2, <1>3, <1>4, MainStepTyped, ParserStepTyped DEF BuildNext, Ended


-----------------------------------------------------------------------------
(* What jobs are about.                                                    *)

\* A job is new, or it moves on in the pool.
LEMMA JobsMove ==
  ASSUME BuildInv, [BuildNext]_vars, NEW f \in Jobs, job'[f] # job[f]
  PROVE  \/ /\ f \notin extractedFiles /\ job'[f] = "queued" /\ step \in {"html", "rest", "externs"}
            /\ step = "html" => f \in Html
            /\ step = "externs" => f \in Extern
         \/ /\ job[f] \notin {"none", "done"} /\ step' \in {step, "done"}
            /\ job'[f] = "record" => f \in Html
<1>1. job \in [Jobs -> JobPlace] /\ queue \in Seq(Jobs)
  BY DEF BuildInv, BuildTypeOK
<1>2. CASE SubmitHtml \/ SubmitRest \/ SubmitExtern
  <2>1. PICK g : /\ job' = [job EXCEPT ![g] = "queued"] /\ g \notin extractedFiles
                 /\ step \in {"html", "rest", "externs"}
                 /\ step = "html" => g \in Html
                 /\ step = "externs" => g \in Extern
    BY <1>2 DEF SubmitHtml, SubmitRest, SubmitExtern, SubmitFile, Go, At
  <2> QED BY <1>1, <2>1
<1>3. CASE MainStep /\ ~(SubmitHtml \/ SubmitRest \/ SubmitExtern)
  BY <1>3 DEF MainStep, JoinHtml,
     VerifyInstallation, GetOwnFiles, GotOwnFiles, OpenTsConfig, OpenedTsConfig,
     Announce, Announced, NextTypeScriptFile, ParseFile, ParsedFile, CloseTsConfig,
     ClosedTsConfig, GetTypeTable, RemainingFiles, StopParser, EndOfSource, EndOfExterns,
     ParserThrew, Finish, AskParser, poolVars
<1>4. CASE StartJob
  <2>1. Head(queue) = queue[1] /\ 1 \in DOMAIN queue
    BY <1>1, <1>4 DEF StartJob
  <2>2. job[Head(queue)] = "queued"
    BY <2>1 DEF BuildInv, QueueInv
  <2>3. f = Head(queue) /\ job'[f] \in {"lookup", "done"} /\ step' = step
    BY <1>1, <1>4 DEF StartJob, OtherThanJob
  <2> QED BY <2>2, <2>3
<1>5. CASE PoolStep /\ ~StartJob
  <2>1. PICK g \in Jobs : \/ CacheHit(g) \/ CopyCached(g) \/ CacheMiss(g) \/ WriteSnippet(g)
                          \/ RecordSnippet(g) \/ ExtractContents(g) \/ Commit(g) \/ Publish(g)
                          \/ FinishJob(g) \/ JobThrows(g)
    BY <1>5 DEF PoolStep
  <2>2. PICK from, to : /\ from \notin {"none", "done"} /\ JobStep(g, from, to)
                        /\ to = "record" => g \in Html
    BY <2>1 DEF CacheHit, CopyCached, CacheMiss, WriteSnippet, RecordSnippet,
       ExtractContents, Commit, Publish, FinishJob, JobThrows
  <2>3. step' \in {step, "done"}
    BY <2>1 DEF CacheHit, CopyCached, CacheMiss, WriteSnippet, RecordSnippet,
       ExtractContents, Commit, Publish, FinishJob, JobThrows, OtherThanJob, ExitProgram
  <2> QED BY <1>1, <2>2, <2>3 DEF JobStep
<1>6. CASE ParserStep \/ DeleteSource \/ TrimCache \/ UNCHANGED vars
  BY <1>6 DEF ParserStep, DeleteSource, TrimCache, vars, buildVars
<1> QED BY <1>2, <1>3, <1>4, <1>5, <1>6 DEF BuildNext, Ended

\* The main thread leaves the HTML files when they are done with.
LEMMA JoinsHtml ==
  ASSUME EarlyInv, [BuildNext]_vars, step = "html", step' \notin {"html", "done"}
  PROVE  JoinHtml
BY DEF BuildNext, MainStep, PoolStep, SubmitHtml, SubmitRest, SubmitExtern, SubmitFile,
   VerifyInstallation, GetOwnFiles, GotOwnFiles, OpenTsConfig, OpenedTsConfig, Announce,
   Announced, NextTypeScriptFile, ParseFile, ParsedFile, CloseTsConfig, ClosedTsConfig,
   GetTypeTable, RemainingFiles, StopParser, EndOfSource, EndOfExterns, ParserThrew, Finish,
   AskParser, Go, At, Answered, StartJob, CacheHit, CopyCached, CacheMiss, WriteSnippet,
   RecordSnippet, ExtractContents, Commit, Publish, FinishJob, JobThrows, OtherThanJob, ParserStep,
   DeleteSource, TrimCache, Ended, vars, buildVars, ExitProgram

LEMMA StepKinds ==
  ASSUME BuildInv, RestInv, TypedInv, [BuildNext]_vars
  PROVE  KindsOfJobs'
<1>1. KindsOfJobs /\ EarlyInv /\ ComingInv
  BY DEF TypedInv
<1>2. \A f \in Jobs : job'[f] = "record" => f \in Html
  BY <1>1, JobsMove DEF KindsOfJobs
<1>3. ASSUME step' \notin {"html", "done"}, NEW f \in Html
      PROVE  job'[f] = "done"
  <2>1. f \in Jobs
    BY Kinds
  <2>2. step # "done"
    BY <1>3, EndIsFinal
  <2>3. CASE step = "html"
    <3>1. todo = {} /\ AllDone /\ UNCHANGED job
      BY <1>1, <1>3, <2>3, JoinsHtml DEF JoinHtml, poolVars
    <3> QED BY <1>1, <2>1, <2>3, <3>1 DEF ComingInv, AllDone
  <2>4. CASE step # "html"
    <3>1. job[f] = "done" /\ f \in extractedFiles
      BY <1>1, <2>1, <2>2, <2>4 DEF KindsOfJobs, BuildInv, JobInv
    <3> QED BY <2>1, <3>1, JobsMove
  <2> QED BY <2>3, <2>4
<1>4. ASSUME NEW f \in TypeScript
      PROVE  job'[f] = "none"
  <2>1. f \in Jobs /\ f \notin Html \cup Extern /\ job[f] = "none"
    BY <1>1, TypedKinds DEF KindsOfJobs
  <2>2. step = "rest" => f \in extractedFiles
    BY DEF RestInv
  <2> QED BY <2>1, <2>2, JobsMove
<1> QED BY <1>2, <1>3, <1>4 DEF KindsOfJobs

-----------------------------------------------------------------------------
(* The lists of the main thread.                                           *)

ListsTyped == IncludedInv /\ ListedInv /\ TakenInv /\ TrapInv

\* Neither the main thread nor what it works on moves.
LEMMA QuietLists ==
  ASSUME BuildInv', ListsTyped, step' = step,
         UNCHANGED <<todo, tsconfigIndex, explicitlyIncluded, extractedFiles>>,
         step # "html" => Typed' = Typed,
         \A f \in Typed' \cap extractedFiles : trap'[f] = trap[f]
  PROVE  ListsTyped'
<1>1. CASE step = "html"
  <2>1. Typed' \cap extractedFiles' = {}
    <3>1. snippets' \subseteq Snippet
      BY DEF BuildInv, BuildTypeOK
    <3>2. extractedFiles' \cap (TypeScript \cup Snippet) = {}
      BY <1>1 DEF ListsTyped, TrapInv, Before
    <3> QED BY <3>1, <3>2 DEF Typed
  <2> QED BY <1>1, <2>1 DEF ListsTyped, IncludedInv, ListedInv, TakenInv, TrapInv, Before, Working
<1>2. CASE step # "html"
  <2>1. Typed' = Typed
    BY <1>2
  <2> QED BY <1>2, <2>1 DEF ListsTyped, IncludedInv, ListedInv, TakenInv, TrapInv, Current, InProject,
       ThisTsConfig
<1> QED BY <1>1, <1>2

\* At the end, and when an exception unwinds, nothing is promised.
LEMMA EndsTyped ==
  ASSUME step' \in {"done", "unwind"}
  PROVE  ListsTyped'
BY DEF ListsTyped, IncludedInv, ListedInv, TakenInv, TrapInv, Before, Working

\* What is not the main thread.
LEMMA OthersTyped ==
  ASSUME BuildInv, BuildInv', ListsTyped, KindsOfJobs,
         PoolStep \/ ParserStep \/ DeleteSource \/ TrimCache \/ UNCHANGED vars
  PROVE  ListsTyped'
<1>1. /\ step' \in {step, "done"}
      /\ UNCHANGED <<todo, tsconfigIndex, explicitlyIncluded, extractedFiles>>
  BY DEF PoolStep, StartJob, CacheHit, CopyCached, CacheMiss, WriteSnippet, RecordSnippet,
     ExtractContents, Commit, Publish, FinishJob, JobThrows, OtherThanJob, ExitProgram, ParserStep,
     DeleteSource, TrimCache, vars, buildVars
<1>2. ASSUME NEW f \in Typed' PROVE trap'[f] = trap[f]
  <2>1. CASE \E g \in Jobs : CopyCached(g) \/ Commit(g)
    <3>1. PICK g \in Jobs : job[g] # "none" /\ \E t : trap' = [trap EXCEPT ![g] = t]
      BY <2>1 DEF CopyCached, Commit, JobStep
    <3>2. f \in TypeScript \cup Snippet
      BY DEF Typed, BuildInv, BuildTypeOK
    <3>3. f # g
      BY <3>1, <3>2, Kinds DEF KindsOfJobs
    <3> QED BY <3>1, <3>3 DEF BuildInv, BuildTypeOK
  <2>2. CASE ~\E g \in Jobs : CopyCached(g) \/ Commit(g)
    BY <2>2 DEF PoolStep, StartJob, CacheHit, CacheMiss, WriteSnippet, RecordSnippet,
     ExtractContents, Publish, FinishJob, JobThrows, ParserStep,
     DeleteSource, TrimCache, vars, buildVars
  <2> QED BY <2>1, <2>2
<1>3. step # "html" => Typed' = Typed
  BY SnippetsStay DEF BuildNext, Ended
<1> QED BY <1>1, <1>2, <1>3, QuietLists, EndsTyped

\* The HTML files, which are nobody's list.
LEMMA HtmlLists ==
  ASSUME BuildInv, BuildInv', ListsTyped, SubmitHtml \/ JoinHtml
  PROVE  ListsTyped'
<1>1. /\ step = "html" /\ step' \in {"html", "verify", "rest"} /\ UNCHANGED <<tsconfigIndex, explicitlyIncluded>>
      /\ step' = "rest" => TsConfigs = <<>> /\ TypeScript = {}
  BY DEF SubmitHtml, SubmitFile, JoinHtml, Go, At
<1>2. extractedFiles' \cap (TypeScript \cup Snippet) = {}
  <2>1. extractedFiles \cap (TypeScript \cup Snippet) = {}
    BY <1>1 DEF ListsTyped, TrapInv, Before
  <2>2. extractedFiles' \subseteq extractedFiles \cup Html
    BY DEF SubmitHtml, SubmitFile, JoinHtml
  <2> QED BY <2>1, <2>2, TypedKinds
<1>3. Typed' \cap extractedFiles' = {}
  <2>1. snippets' \subseteq Snippet
    BY DEF BuildInv, BuildTypeOK
  <2> QED BY <1>2, <2>1 DEF Typed
<1>4. step' = "rest" => DOMAIN TsConfigs = {} /\ Len(TsConfigs) = 0
  BY <1>1, Projects
<1>5. IncludedInv' /\ ListedInv'
  BY <1>1, <1>4 DEF ListsTyped, IncludedInv, ListedInv, Before, Working
<1>6. TakenInv'
  BY <1>1, <1>4 DEF TakenInv, Before, Working
<1>7. TrapInv'
  BY <1>1, <1>2, <1>3 DEF TrapInv, Before
<1> QED BY <1>5, <1>6, <1>7 DEF ListsTyped

\* The inclusion patterns.
LEMMA OwnLists ==
  ASSUME BuildInv, BuildInv', ListsTyped, AnswersInv, VerifyInstallation \/ GotOwnFiles, Typed' = Typed
  PROVE  ListsTyped'
<1>1. /\ step \in {"verify", "owning"} /\ step' \in {"own", "open", "unwind"}
      /\ UNCHANGED <<todo, extractedFiles, trap>>
  BY DEF VerifyInstallation, GotOwnFiles, Go, At
<1>2. Len(TsConfigs) \in Nat /\ tsconfigIndex \in Nat \ {0}
  BY Projects DEF BuildInv, BuildTypeOK
<1>3. IncludedInv' /\ (step' = "open" => tsconfigIndex' = 1)
  <2>1. CASE VerifyInstallation
    <3>1. /\ step = "verify" /\ UNCHANGED <<tsconfigIndex, explicitlyIncluded>>
          /\ step' = "own" => Len(TsConfigs) > 1
          /\ step' = "open" => ~(Len(TsConfigs) > 1)
      BY <2>1 DEF VerifyInstallation, Go, At
    <3>2. explicitlyIncluded = {} /\ tsconfigIndex = 1
      BY <3>1 DEF ListsTyped, IncludedInv
    <3>3. OwnBefore(1) = {}
      BY Projects DEF OwnBefore
    <3> QED BY <1>1, <1>2, <3>1, <3>2, <3>3 DEF IncludedInv, Before, InProject
  <2>2. CASE GotOwnFiles
    <3>1. /\ step = "owning" /\ pc = "idle" /\ result.outcome = "ok"
          /\ step' = IF tsconfigIndex < Len(TsConfigs) THEN "own" ELSE "open"
          /\ explicitlyIncluded' = explicitlyIncluded \cup result.response.ownFiles
          /\ tsconfigIndex' = IF tsconfigIndex < Len(TsConfigs) THEN tsconfigIndex + 1 ELSE 1
      BY <2>2 DEF GotOwnFiles, Answered, Go, At
    <3>2. explicitlyIncluded \cap Typed = OwnBefore(tsconfigIndex) \cap Typed /\ InProject
          /\ Len(TsConfigs) > 1
      BY <3>1 DEF ListsTyped, IncludedInv
    <3>3. result.response.ownFiles \cap Typed = OwnFiles[TsConfigs[tsconfigIndex]] \cap Typed
      BY <3>1 DEF AnswersInv, RightAnswer, Waiting, ThisTsConfig
    <3>4. OwnBefore(tsconfigIndex + 1) = OwnBefore(tsconfigIndex) \cup OwnFiles[TsConfigs[tsconfigIndex]]
      <4>1. tsconfigIndex \in DOMAIN TsConfigs
        BY <3>2, CurrentIs
      <4>2. {j \in DOMAIN TsConfigs : j < tsconfigIndex + 1}
              = {j \in DOMAIN TsConfigs : j < tsconfigIndex} \cup {tsconfigIndex}
        BY <1>2, <4>1, Projects
      <4> QED BY <4>2 DEF OwnBefore
    <3>5. explicitlyIncluded' \cap Typed = OwnBefore(tsconfigIndex + 1) \cap Typed
      BY <3>1, <3>2, <3>3, <3>4
    <3>6. CASE tsconfigIndex < Len(TsConfigs)
      BY <1>2, <3>1, <3>2, <3>5, <3>6 DEF IncludedInv, Before, InProject
    <3>7. CASE ~(tsconfigIndex < Len(TsConfigs))
      <4>1. tsconfigIndex = Len(TsConfigs)
        BY <1>2, <3>2, <3>7 DEF InProject
      <4> QED BY <3>1, <3>2, <3>5, <3>7, <4>1 DEF IncludedInv, Before
    <3> QED BY <3>6, <3>7
  <2> QED BY <2>1, <2>2
<1>4. ListedInv' /\ TakenInv'
  BY <1>1, <1>3, Projects DEF ListedInv, TakenInv, Before, Working
<1>5. TrapInv'
  <2>1. extractedFiles \cap (TypeScript \cup Snippet) = {} /\ snippets' \subseteq Snippet
    BY <1>1 DEF ListsTyped, TrapInv, Before, BuildInv, BuildTypeOK
  <2>2. Typed' \cap extractedFiles' = {}
    BY <1>1, <2>1 DEF Typed
  <2> QED BY <1>1, <2>1, <2>2 DEF TrapInv
<1> QED BY <1>3, <1>4, <1>5 DEF ListsTyped

\* Asking changes neither the list nor what has been extracted.
LEMMA AskLists ==
  ASSUME BuildInv, ListsTyped, NEW from, NEW c, NEW to, AskParser(from, c, to),
         UNCHANGED extractedFiles, Typed' = Typed,
         <<from, to>> \in {<<"own", "owning">>, <<"open", "opening">>, <<"open", "typing">>,
                           <<"prepare", "preparing">>, <<"read", "parsing">>, <<"parse", "closing">>},
         to = "typing" => ~InProject,
         to = "closing" => todo = {}
  PROVE  ListsTyped'
<1>1. /\ step = from /\ step' = to
      /\ UNCHANGED <<todo, tsconfigIndex, explicitlyIncluded, extractedFiles, trap>>
  BY DEF AskParser, At
<1>2. IncludedInv' /\ ListedInv'
  BY <1>1 DEF ListsTyped, IncludedInv, ListedInv, Before, Working, Current, InProject, ThisTsConfig
<1>3. TakenInv'
  BY <1>1 DEF ListsTyped, TakenInv, Before, Working, Current, InProject, ThisTsConfig
<1>4. TrapInv'
  BY <1>1 DEF ListsTyped, TrapInv, Before
<1> QED BY <1>2, <1>3, <1>4 DEF ListsTyped

LEMMA AsksLists ==
  ASSUME BuildInv, ListsTyped, Typed' = Typed,
         \/ GetOwnFiles \/ OpenTsConfig \/ Announce \/ CloseTsConfig \/ GetTypeTable
         \/ ParseFile /\ step' # "done"
  PROVE  ListsTyped'
<1>1. CASE GetOwnFiles
  BY <1>1, AskLists DEF GetOwnFiles
<1>2. CASE OpenTsConfig
  BY <1>2, AskLists DEF OpenTsConfig
<1>3. CASE Announce
  BY <1>3, AskLists DEF Announce
<1>4. CASE CloseTsConfig
  BY <1>4, AskLists DEF CloseTsConfig
<1>5. CASE GetTypeTable
  BY <1>5, AskLists DEF GetTypeTable
<1>6. CASE ParseFile /\ step' # "done"
  <2>1. PICK f : AskParser("read", [command |-> "parse", file |-> f], "parsing")
    BY <1>6 DEF ParseFile, ExitProgram
  <2> QED BY <1>6, <2>1, AskLists DEF ParseFile
<1> QED BY <1>1, <1>2, <1>3, <1>4, <1>5, <1>6

\* A project is opened: what it takes of the files that are left is the list.
LEMMA OpenedLists ==
  ASSUME BuildInv, ListsTyped, AnswersInv, OpenedTsConfig, Typed' = Typed
  PROVE  ListsTyped'
<1>1. /\ step = "opening" /\ step' = "prepare" /\ pc = "idle" /\ result.outcome = "ok"
      /\ UNCHANGED <<tsconfigIndex, explicitlyIncluded, extractedFiles, trap>>
      /\ todo' = Claimed(result.response.ownFiles, result.response.allFiles)
  BY DEF OpenedTsConfig, Answered, Go, At
<1>2. InProject /\ RightAnswer(result.response)
  BY <1>1 DEF AnswersInv, Waiting
<1>3. \A f : f \in todo' <=> f \in Typed /\ Takes(tsconfigIndex, f) /\ f \notin extractedFiles
  BY <1>1, <1>2, ClaimedIsTaken DEF ListsTyped
<1>4. tsconfigIndex \in DOMAIN TsConfigs /\ Current = ThisTsConfig
  BY <1>2, CurrentIs
<1>5. \A f \in Typed, i \in DOMAIN TsConfigs :
        i < tsconfigIndex /\ Takes(i, f) => f \in extractedFiles
  BY <1>1 DEF ListsTyped, TakenInv, Before
<1>6. UNCHANGED Current /\ UNCHANGED ThisTsConfig /\ UNCHANGED InProject
  BY <1>1 DEF Current, InProject, ThisTsConfig
<1>7. ASSUME NEW f \in todo'
      PROVE  f \in Typed /\ BestProject(f) = Current /\ f \in ProgramFiles[ThisTsConfig]
  <2>1. BestProject(f) = TsConfigs[tsconfigIndex]
    BY <1>3, <1>4, <1>5, <1>7, BestIsTaken
  <2> QED BY <1>3, <1>4, <1>7, <2>1 DEF Takes, ThisTsConfig
<1>8. IncludedInv'
  BY <1>1 DEF ListsTyped, IncludedInv, Before
<1>9. ListedInv'
  BY <1>6, <1>7 DEF ListedInv
<1>10. TakenInv'
  BY <1>1, <1>2, <1>3, <1>5, <1>6 DEF TakenInv, Before
<1>11. TrapInv'
  BY <1>1 DEF ListsTyped, TrapInv, Before
<1> QED BY <1>8, <1>9, <1>10, <1>11 DEF ListsTyped

\* The loop goes on to the next project.
LEMMA ClosedLists ==
  ASSUME BuildInv, ListsTyped, AnswersInv, ClosedTsConfig, Typed' = Typed
  PROVE  ListsTyped'
<1>1. /\ step = "closing" /\ step' = "open" /\ tsconfigIndex' = tsconfigIndex + 1
      /\ UNCHANGED <<todo, explicitlyIncluded, extractedFiles, trap>>
  BY DEF ClosedTsConfig, Answered, Go, At
<1>2. InProject /\ tsconfigIndex \in Nat
  BY <1>1 DEF AnswersInv, BuildInv, BuildTypeOK
<1>3. IncludedInv' /\ ListedInv' /\ TrapInv'
  BY <1>1 DEF ListsTyped, IncludedInv, ListedInv, TrapInv, Before, Working
<1>4. TakenInv'
  <2>1. \A i \in DOMAIN TsConfigs : i < tsconfigIndex + 1 => i < tsconfigIndex \/ i = tsconfigIndex
    BY <1>2, Projects
  <2>2. \A f \in Typed, i \in DOMAIN TsConfigs :
          i < tsconfigIndex + 1 /\ Takes(i, f) => f \in extractedFiles
    BY <1>1, <1>2, <2>1 DEF ListsTyped, TakenInv, Before
  <2> QED BY <1>1, <2>2 DEF TakenInv, Before, Working
<1> QED BY <1>3, <1>4 DEF ListsTyped

\* After the projects, the TypeScript files that are left.
LEMMA RemainingLists ==
  ASSUME BuildInv, ListsTyped, RemainingFiles, Typed' = Typed
  PROVE  ListsTyped'
<1> DEFINE rest == {f \in Source : IsTypeScript(f) /\ f \notin extractedFiles}
<1>1. /\ step \in {"open", "typing"} /\ step' = IF rest = {} THEN "kill" ELSE "prepare"
      /\ todo' = rest
      /\ UNCHANGED <<tsconfigIndex, explicitlyIncluded, extractedFiles, trap>>
      /\ step = "open" => TsConfigs = <<>>
  BY DEF RemainingFiles, Answered, At, Go
<1>2. ~InProject
  <2>1. CASE step = "open"
    BY <1>1, <2>1 DEF InProject, BuildInv, BuildTypeOK
  <2>2. CASE step = "typing"
    BY <2>2 DEF ListsTyped, TakenInv
  <2> QED BY <1>1, <2>1, <2>2
<1>3. rest = TypeScript \ extractedFiles
  BY TypedKinds DEF IsTypeScript
<1>4. \A f \in Typed, i \in DOMAIN TsConfigs : Takes(i, f) => f \in extractedFiles
  BY <1>1, <1>2, CurrentIs DEF ListsTyped, TakenInv, Before
<1>5. UNCHANGED Current /\ UNCHANGED InProject /\ Current = NoProject
  BY <1>1, <1>2 DEF Current, InProject, ThisTsConfig
<1>6. \A f \in rest : f \in Typed /\ BestProject(f) = Current
  BY <1>3, <1>4, <1>5, NobodyTakes DEF Typed
<1>7. IncludedInv'
  BY <1>1 DEF ListsTyped, IncludedInv, Before
<1>8. ListedInv'
  BY <1>1, <1>2, <1>5, <1>6 DEF ListedInv
<1>9. TakenInv'
  BY <1>1, <1>2, <1>3, <1>4, <1>5 DEF TakenInv, Before, Working
<1>10. TrapInv'
  BY <1>1 DEF ListsTyped, TrapInv, Before
<1> QED BY <1>7, <1>8, <1>9, <1>10 DEF ListsTyped

LEMMA StopLists ==
  ASSUME BuildInv, ListsTyped, StopParser, Typed' = Typed
  PROVE  ListsTyped'
<1>1. /\ step' = "rest" /\ UNCHANGED <<tsconfigIndex, explicitlyIncluded, extractedFiles, trap>>
      /\ step = "kill" \/ (step = "parse" /\ todo = {} /\ ~InProject)
  BY DEF StopParser, At
<1>2. \A f \in Typed, i \in DOMAIN TsConfigs : Takes(i, f) => f \in extractedFiles
  BY <1>1, CurrentIs DEF ListsTyped, TakenInv, Before, Working
<1>3. IncludedInv' /\ ListedInv' /\ TrapInv'
  BY <1>1 DEF ListsTyped, IncludedInv, ListedInv, TrapInv, Before, Working
<1>4. TakenInv'
  BY <1>1, <1>2 DEF TakenInv, Before, Working
<1> QED BY <1>3, <1>4 DEF ListsTyped

\* Everything else, and the externs.
LEMMA RestLists ==
  ASSUME BuildInv, RestInv, ListsTyped, Typed' = Typed,
         SubmitRest \/ SubmitExtern \/ EndOfSource \/ EndOfExterns
  PROVE  ListsTyped'
<1>1. /\ step \in {"rest", "externs"} /\ step' \in {"rest", "externs", "shutdown"}
      /\ UNCHANGED <<tsconfigIndex, explicitlyIncluded, trap>>
  BY DEF SubmitRest, SubmitExtern, SubmitFile, EndOfSource, EndOfExterns, Go, At
<1>2. TypeScript \subseteq extractedFiles
  BY <1>1 DEF RestInv
<1>3. extractedFiles \subseteq extractedFiles' /\ Typed \cap extractedFiles' \subseteq extractedFiles
  <2>1. CASE EndOfSource \/ EndOfExterns
    BY <2>1 DEF EndOfSource, EndOfExterns
  <2>2. CASE SubmitRest \/ SubmitExtern
    <3>1. /\ extractedFiles \subseteq extractedFiles'
          /\ extractedFiles' \subseteq extractedFiles \cup Source \cup Extern
      BY <2>2 DEF SubmitRest, SubmitExtern, SubmitFile
    <3>2. snippets \subseteq Snippet
      BY DEF BuildInv, BuildTypeOK
    <3> QED BY <1>2, <3>1, <3>2, Kinds, TypedKinds DEF Typed
  <2> QED BY <2>1, <2>2
<1>4. IncludedInv' /\ ListedInv'
  BY <1>1 DEF ListsTyped, IncludedInv, ListedInv, Before, Working
<1>5. TakenInv'
  BY <1>1, <1>3 DEF ListsTyped, TakenInv, Before, Working
<1>6. TrapInv'
  BY <1>1, <1>3 DEF ListsTyped, TrapInv, Before
<1> QED BY <1>4, <1>5, <1>6 DEF ListsTyped

\* The list is worked off.
LEMMA WorkedLists ==
  ASSUME BuildInv, ListsTyped, step \in Working, step' \in Working, Typed' = Typed,
         UNCHANGED <<tsconfigIndex, explicitlyIncluded>>,
         extractedFiles \subseteq extractedFiles', todo' \subseteq todo,
         todo \subseteq todo' \cup extractedFiles',
         TrapInv'
  PROVE  ListsTyped'
<1>1. UNCHANGED Current /\ UNCHANGED InProject /\ UNCHANGED ThisTsConfig
  BY DEF Current, InProject, ThisTsConfig
<1>2. IncludedInv' /\ ListedInv'
  BY <1>1 DEF ListsTyped, IncludedInv, ListedInv, Before, Working
<1>3. TakenInv'
  BY <1>1 DEF ListsTyped, TakenInv, Before, Working
<1> QED BY <1>2, <1>3 DEF ListsTyped

LEMMA AnnouncedLists ==
  ASSUME BuildInv, ListsTyped, Announced, Typed' = Typed
  PROVE  ListsTyped'
<1>1. /\ step = "preparing" /\ step' = "parse"
      /\ UNCHANGED <<tsconfigIndex, explicitlyIncluded, extractedFiles, todo, trap>>
  BY DEF Announced, Answered, At, Go
<1>2. TrapInv'
  BY <1>1 DEF ListsTyped, TrapInv, Before
<1> QED BY <1>1, <1>2, WorkedLists DEF Working

LEMMA NextFileLists ==
  ASSUME BuildInv, ListsTyped, TypedFilesStay, NextTypeScriptFile, Typed' = Typed
  PROVE  ListsTyped'
<1>1. PICK f \in todo : /\ step = "parse" /\ extractedFiles' = extractedFiles \cup {f}
                        /\ f \in exists => step' = "read" /\ UNCHANGED todo
                        /\ UNCHANGED <<tsconfigIndex, explicitlyIncluded, trap>>
  BY DEF NextTypeScriptFile, At, Go
<1>2. f \in exists
  BY <1>1 DEF ListsTyped, ListedInv, Working, TypedFilesStay
<1>3. TrapInv'
  BY <1>1, <1>2 DEF ListsTyped, TrapInv, Before
<1> QED BY <1>1, <1>2, <1>3, WorkedLists DEF Working

LEMMA ParsedLists ==
  ASSUME BuildInv, ListsTyped, AnswersInv, ParsedFile, Typed' = Typed
  PROVE  ListsTyped'
<1>1. PICK f \in todo : /\ IsNext(f) /\ step = "parsing" /\ pc = "idle" /\ result.outcome = "ok"
                        /\ UNCHANGED <<tsconfigIndex, extractedFiles, explicitlyIncluded>>
                        /\ \/ step' = "done"
                           \/ /\ step' = "parse" /\ todo' = todo \ {f}
                              /\ trap' = [trap EXCEPT ![f] = result.response.project]
  BY DEF ParsedFile, Answered, At, Go, ExitProgram
<1>2. CASE step' = "done"
  BY <1>2, EndsTyped
<1>3. CASE step' # "done"
  <2>1. result.response.project = Current
    BY <1>1 DEF AnswersInv, RightAnswer, Waiting
  <2>2. BestProject(f) = Current
    BY <1>1 DEF ListsTyped, ListedInv, Working
  <2>3. f \in extractedFiles /\ f \in File /\ \A g \in todo \ {f} : g \notin extractedFiles
    <3>1. \A g \in todo \ {f} : ~IsNext(g)
      BY <1>1, NextUnique DEF BuildInv, BuildTypeOK
    <3> QED BY <1>1, <3>1 DEF BuildInv, BuildTypeOK, TodoInv, Parsing
  <2>4. TrapInv'
    <3>1. ASSUME NEW g \in Typed \cap extractedFiles
          PROVE  trap'[g] = BestProject(g)
      <4>1. CASE g = f
        BY <1>1, <1>3, <2>1, <2>2, <2>3, <4>1 DEF BuildInv, BuildTypeOK
      <4>2. CASE g # f
        BY <1>1, <1>3, <2>3, <4>2 DEF ListsTyped, TrapInv, BuildInv, BuildTypeOK
      <4> QED BY <4>1, <4>2
    <3> QED BY <1>1, <1>3, <3>1 DEF TrapInv, Before
  <2> QED BY <1>1, <1>3, <2>3, <2>4, WorkedLists DEF Working
<1> QED BY <1>2, <1>3

LEMMA MainStepLists ==
  ASSUME BuildInv, BuildInv', RestInv, TypedInv, TypedFilesStay, MainStep, step # "html" => Typed' = Typed
  PROVE  ListsTyped'
<1>1. ListsTyped /\ AnswersInv
  BY DEF TypedInv, ListsTyped
<1>2. CASE SubmitHtml \/ JoinHtml
  BY <1>1, <1>2, HtmlLists
<1>3. CASE ParserThrew \/ Finish \/ step' = "done"
  <2>1. step' \in {"done", "unwind"}
    BY <1>3 DEF ParserThrew, Finish, ExitProgram
  <2> QED BY <2>1, EndsTyped
<1>4. CASE ~(SubmitHtml \/ JoinHtml \/ ParserThrew \/ Finish \/ step' = "done")
  <2>1. step # "html"
    BY <1>4 DEF MainStep, SubmitRest, SubmitExtern, SubmitFile,
        VerifyInstallation, GetOwnFiles, GotOwnFiles, OpenTsConfig, OpenedTsConfig, Announce,
        Announced, NextTypeScriptFile, ParseFile, ParsedFile, CloseTsConfig, ClosedTsConfig,
        GetTypeTable, RemainingFiles, StopParser, EndOfSource, EndOfExterns,
        AskParser, Go, At, Answered
  <2>2. Typed' = Typed
    BY <2>1
  <2> QED BY <1>1, <1>4, <2>2, OwnLists, AsksLists, OpenedLists, ClosedLists, RemainingLists,
          StopLists, RestLists, AnnouncedLists, NextFileLists, ParsedLists DEF MainStep
<1> QED BY <1>2, <1>3, <1>4

\* A run completes when it shuts down, or it stays completed.
LEMMA CompletesAtShutdown ==
  ASSUME [BuildNext]_vars, Completed'
  PROVE  \/ Completed /\ UNCHANGED vars
         \/ step = "shutdown" /\ UNCHANGED <<snippets, trap>>
<1>1. CASE step = "done"
  BY <1>1, EndIsFinal DEF Completed, vars, buildVars
<1>2. CASE step # "done"
  <2>1. step' = "done" /\ status' # 1
    BY DEF Completed
  <2>2. Finish
    BY <1>2, <2>1 DEF BuildNext, MainStep, PoolStep, SubmitHtml, SubmitRest, SubmitExtern, SubmitFile,
     JoinHtml, VerifyInstallation, GetOwnFiles, GotOwnFiles, OpenTsConfig, OpenedTsConfig, Announce,
     Announced, NextTypeScriptFile, ParseFile, ParsedFile, CloseTsConfig, ClosedTsConfig,
     GetTypeTable, RemainingFiles, StopParser, EndOfSource, EndOfExterns, ParserThrew,
     AskParser, Go, StartJob, CacheHit, CopyCached, CacheMiss, WriteSnippet,
     RecordSnippet, ExtractContents, Commit, Publish, FinishJob, JobThrows, OtherThanJob, ParserStep,
     DeleteSource, TrimCache, Ended, vars, buildVars, ExitProgram
  <2> QED BY <2>1, <2>2 DEF Finish, ExitProgram, At
<1> QED BY <1>1, <1>2

LEMMA CompletedTyped ==
  ASSUME RestInv, TypedInv, [BuildNext]_vars
  PROVE  TypedByBestProject'
<1> SUFFICES ASSUME Completed' PROVE TypedByBestProject'
  BY DEF TypedByBestProject
<1>1. CASE Completed /\ UNCHANGED vars
  BY <1>1 DEF TypedInv, TypedByBestProject, vars, buildVars, parserVars
<1>2. CASE step = "shutdown" /\ UNCHANGED <<snippets, trap>>
  <2>1. /\ TypeScript \subseteq extractedFiles
        /\ \A f \in Typed, i \in DOMAIN TsConfigs : Takes(i, f) => f \in extractedFiles
    BY <1>2 DEF RestInv, TypedInv, TakenInv
  <2>2. \A f \in Typed \cap extractedFiles : trap[f] = BestProject(f)
    BY <1>2 DEF TypedInv, TrapInv
  <2>3. \A f \in snippets : BestProject(f) # NoProject => trap[f] = BestProject(f)
    BY <2>1, <2>2, NobodyTakes DEF Typed
  <2> QED BY <1>2, <2>1, <2>2, <2>3 DEF TypedByBestProject, Typed
<1> QED BY <1>1, <1>2, CompletesAtShutdown

\* What a project or the rest needs is there, so the lists are worked off in order.
LEMMA TypedStays ==
  ASSUME TypedInv, TypedFilesStay
  PROVE  SkipsNothing
BY DEF TypedInv, ListedInv, Working, TypedFilesStay, SkipsNothing, NextTypeScriptFile, Go, At

LEMMA StepTyped ==
  ASSUME BuildInv, BuildInv', RestInv, EffectInv, OrderInv, TypedInv, TypedFilesStay, [BuildNext]_vars,
         Redirected \cap (TypeScript \cup Snippet) = {}
  PROVE  TypedInv'
<1>1. EarlyInv' /\ ComingInv'
  BY StepEarly, StepComing DEF TypedInv
<1>2. KindsOfJobs' /\ TypedByBestProject'
  BY StepKinds, CompletedTyped
<1>3. ParserTyped'
  BY StepParserTyped
<1>4. ListsTyped'
  <2>1. step # "html" => Typed' = Typed
    BY SnippetsStay DEF TypedInv
  <2>2. CASE MainStep
    BY <2>1, <2>2, MainStepLists
  <2>3. CASE ~MainStep
    BY <2>3, OthersTyped DEF TypedInv, ListsTyped, BuildNext, Ended
  <2> QED BY <2>2, <2>3
<1> QED BY <1>1, <1>2, <1>3, <1>4 DEF TypedInv, ParserTyped, ListsTyped

LEMMA InitTyped ==
  ASSUME BuildInit
  PROVE  TypedInv
<1>1. /\ step = "html" /\ pc = "idle" /\ project = NoProject /\ node = "absent" /\ todo = Source
      /\ pendingResponse = NoResponse /\ pendingFiles = <<>> /\ pendingFileIndex = 0
      /\ extractedFiles = {} /\ explicitlyIncluded = {} /\ tsconfigIndex = 1
      /\ job = [f \in Jobs |-> "none"]
  BY DEF BuildInit, ParserInit
<1>2. EarlyInv /\ ComingInv /\ KindsOfJobs
  BY <1>1, Kinds, TypedKinds DEF EarlyInv, ComingInv, KindsOfJobs
<1>3. ProjectInv /\ AheadInv /\ AnswersInv
  BY <1>1 DEF ProjectInv, AheadInv, AnswersInv, Answering, Before, Working, Waiting
<1>4. IncludedInv /\ ListedInv /\ TakenInv /\ TrapInv
  BY <1>1 DEF IncludedInv, ListedInv, TakenInv, TrapInv, Before, Working
<1>5. TypedByBestProject
  BY <1>1 DEF TypedByBestProject, Completed
<1> QED BY <1>2, <1>3, <1>4, <1>5 DEF TypedInv

\* If the files that may have types stay, and none is redirected to another
\* package's copy, a run that completes has extracted each TypeScript file with
\* the first project that includes it, or else the first that refers to it, or
\* else none, and each snippet that has a project with its own: whatever the
\* pool does, whatever is parsed ahead, and wherever the process or its
\* compiler is restarted (extractTypeScript).
THEOREM ExtractsByBestProject ==
  ASSUME Redirected \cap (TypeScript \cup Snippet) = {}
  PROVE  BuildSpec /\ []TypedFilesStay => []TypedByBestProject
<1> DEFINE IInv == EffectInv /\ OrderInv /\ TypedInv
<1>1. BuildInit => IInv
  BY InitOrder, InitTyped
<1>2. BuildInv /\ BuildInv' /\ RestInv /\ IInv /\ TypedFilesStay /\ [BuildNext]_vars => IInv'
  BY StepOrder, BuildEffect, StepTyped, TypedStays
<1>3. IInv => TypedByBestProject
  BY DEF TypedInv
<1> HIDE DEF IInv
<1> QED BY <1>1, <1>2, <1>3, BuildAlways, RestAlways, PTL DEF BuildSpec
=============================================================================
