---------------------------- MODULE ParserWrapper ----------------------------
(***************************************************************************)
(* The TypeScript parser wrapper: the Java client                          *)
(* (com.semmle.js.parser.TypeScriptParser), the Node.js process it starts  *)
(* (lib/typescript/src/main.ts with the Project class of common.ts) and    *)
(* the two pipes between them.                                             *)
(*                                                                         *)
(* The client is single-threaded and synchronous: it writes one line and   *)
(* reads one line.  The process is an event loop: it handles one line of   *)
(* standard input at a time, and after the answer to prepare-files or      *)
(* parse has been flushed it runs a callback that parses the NEXT file of  *)
(* the prepared list ahead of its request.  The process may die at any     *)
(* time, of an uncaught exception or from running out of memory.           *)
(*                                                                         *)
(* Here the caller of the client is arbitrary: it may make any call at any *)
(* time.  AutoBuild.tla is the caller this client was written for.         *)
(***************************************************************************)
EXTENDS Naturals, Sequences

CONSTANTS
  File,          \* source files the caller may name
  Project,       \* tsconfig.json files
  OwnFiles,      \* [Project -> SUBSET File]: inclusion pattern of a tsconfig
  ProgramFiles,  \* [Project -> SUBSET File]: files its program would contain
  Redirected,    \* files whose AST in a program is a redirect (redirectInfo)
  Batches,       \* the lists prepareFiles may be called with
  Deletable,     \* files that may disappear from the disk while we run
  MaxCallbacks,  \* bound on the write callbacks outstanding in the process
  CrashCodes,    \* exit codes with which the process may end abruptly
  StartErrors,   \* errors with which starting it may fail
  NoProject, NoCall, NoResponse, NoResult

VARIABLES
  \* Java client
  pc,            \* where the caller is in talkToParserWrapper
  call,          \* the API call in progress
  request,       \* the request being talked about: call, or get-metadata
  result,        \* how the last API call ended
  handle,        \* parserWrapperProcess # null
  metadata,      \* metadata has been loaded
  \* the pipes
  stdin, stdout,
  \* Node.js process
  node,          \* "absent", "running" or "exited"
  exitCode,
  project,       \* state.project
  program,       \* the files in state.project.program
  pendingFiles, pendingFileIndex, pendingResponse,
  typeTable,     \* the <<file, project>> pairs whose types were recorded
  reloaded,      \* hasReloadedSinceExceedingThreshold
  callbacks,     \* prepareNextFile callbacks waiting for a flush
  \* file system
  exists

clientVars == <<pc, call, request, result, handle, metadata>>
pipes      == <<stdin, stdout>>
batchVars  == <<pendingFiles, pendingFileIndex, pendingResponse>>
stateVars  == <<project, program, batchVars, typeTable>>
nodeVars   == <<node, exitCode, stateVars, reloaded, callbacks>>
parserVars == <<clientVars, pipes, nodeVars, exists>>

-----------------------------------------------------------------------------
(* Messages.                                                               *)

Commands == {"get-metadata", "get-type-table", "reset"}
ProjectCommands == {"get-own-files", "open-project", "close-project"}

Request ==
       [command : {"parse"}, file : File]
  \cup [command : {"prepare-files"}, files : Batches]
  \cup [command : ProjectCommands, tsConfig : Project]
  \cup [command : Commands]

\* The calls of the public interface that talk to the process.
Call == {c \in Request : c.command # "get-metadata"}

Metadata == [command |-> "get-metadata"]

Ast == [type : {"ast"}, file : File, project : Project \cup {NoProject}]

Response ==
       Ast
  \cup [type : {"file-list"}, ownFiles : SUBSET File]
  \cup [type : {"project-opened"}, ownFiles : SUBSET File, allFiles : SUBSET File]
  \cup [type : {"type-table"}, types : SUBSET (File \X Project)]
  \cup [type : {"metadata", "ok", "project-closed", "reset-done", "error"}]

\* The response type each request checks for (the checkResponseType calls).
ExpectedType ==
  [c \in {"parse", "prepare-files"} \cup ProjectCommands \cup Commands |->
     CASE c = "parse"          -> "ast"
       [] c = "prepare-files"  -> "ok"
       [] c = "get-own-files"  -> "file-list"
       [] c = "open-project"   -> "project-opened"
       [] c = "close-project"  -> "project-closed"
       [] c = "get-type-table" -> "type-table"
       [] c = "reset"          -> "reset-done"
       [] c = "get-metadata"   -> "metadata"]

Errors == {"UserError", "ResourceError", "CatastrophicError"}

\* How a call ended, and the answer its caller was given.
Result == [call : Call, outcome : Errors \cup {"ok"},
           response : Response \cup {NoResponse}]

ASSUME ParserAssumption ==
  /\ OwnFiles \in [Project -> SUBSET File]
  /\ ProgramFiles \in [Project -> SUBSET File]
  /\ Redirected \subseteq File
  /\ Batches \subseteq Seq(File)
  /\ MaxCallbacks \in Nat \ {0}
  /\ CrashCodes \subseteq {1, 5, 134}
  /\ StartErrors \subseteq Errors
  /\ NoProject \notin Project
  /\ NoCall \notin Request
  /\ NoResponse \notin Response
  /\ NoResult \notin Result

\* Exit codes: 1 for an uncaught exception, 5 and 134 when V8 gives up.
UncaughtException == 1
OutOfMemoryCodes  == {5, 134}

\* Mutant: an I/O exception that is not converted.
ErrorOfExit_Unconverted(code) ==
  IF code \in OutOfMemoryCodes THEN "ResourceError" ELSE "IOException"

\* getExceptionFromMalformedResponse, when the exit code is known.
ErrorOfExit(code) ==
  IF code \in OutOfMemoryCodes THEN "ResourceError" ELSE "CatastrophicError"

-----------------------------------------------------------------------------
(* The client.                                                             *)

Return(outcome, response) ==
  /\ pc' = "idle"
  /\ call' = NoCall
  /\ request' = NoCall
  /\ result' = [call |-> call, outcome |-> outcome, response |-> response]

\* What a process that has just been started, or none, remembers.
FreshState ==
  /\ project' = NoProject
  /\ program' = {}
  /\ pendingFiles' = <<>>
  /\ pendingFileIndex' = 0
  /\ pendingResponse' = NoResponse
  /\ typeTable' = {}

FreshProcess == FreshState /\ reloaded' = FALSE /\ callbacks' = 0 /\ exitCode' = 0

Destroy ==
  /\ node' = "absent"
  /\ FreshProcess
  /\ handle' = FALSE
  /\ stdin' = <<>>
  /\ stdout' = <<>>

\* Mutant: the exception is thrown before the line that was read is consumed.
Throw_Unconsumed(error, unread) ==
  Return(error, NoResponse) /\ UNCHANGED <<handle, pipes, nodeVars>>

\* An exception leaves talkToParserWrapper.  Only reset handles one, and only
\* a CatastrophicError: it kills the process and returns normally.  "unread"
\* is what remains in the pipe from the process.
Throw(error, unread) ==
  LET caught == call.command = "reset" /\ error = "CatastrophicError" IN
  \/ /\ caught
     /\ Destroy
     /\ Return("ok", NoResponse)
  \/ /\ ~caught
     /\ Return(error, NoResponse)
     /\ stdout' = unread
     /\ UNCHANGED <<handle, stdin, nodeVars>>

Invoke(c) ==
  /\ pc = "idle"
  /\ call' = c
  /\ request' = c
  /\ pc' = IF handle THEN "check" ELSE "start"
  /\ result' = NoResult
  /\ UNCHANGED <<handle, metadata, pipes, nodeVars, exists>>

\* resetInternal returns at once when no process is running.
ResetNothing ==
  /\ pc = "start" /\ call.command = "reset"
  /\ Return("ok", NoResponse)
  /\ UNCHANGED <<handle, metadata, pipes, nodeVars, exists>>

\* Mutant: the metadata of a new process is not asked for.
StartProcess_NoMetadata ==
  /\ pc = "start" /\ call.command # "reset"
  /\ node' = "running" /\ FreshProcess
  /\ handle' = TRUE /\ pc' = "check"
  /\ UNCHANGED <<call, request, result, metadata, pipes, exists>>

\* setupParserWrapper: a new process, whose first request is get-metadata.
StartProcess ==
  /\ pc = "start" /\ call.command # "reset"
  /\ node' = "running"
  /\ FreshProcess
  /\ handle' = TRUE
  /\ request' = Metadata
  /\ pc' = "check"
  /\ UNCHANGED <<call, result, metadata, pipes, exists>>

\* Node.js is not installed or does not start (verifyNodeInstallation,
\* ProcessBuilder.start): parserWrapperProcess stays null.
StartFails ==
  /\ pc = "start" /\ call.command # "reset"
  /\ \E error \in StartErrors : Throw(error, stdout)
  /\ UNCHANGED <<metadata, exists>>

\* Mutant: wait until the process is alive.
CheckAlive_Waits ==
  /\ pc = "check"
  /\ pc' = IF node = "running" THEN "write" ELSE pc
  /\ UNCHANGED <<call, request, result, handle, metadata, pipes, nodeVars, exists>>

CheckAlive ==
  /\ pc = "check"
  /\ \/ /\ node = "running"
        /\ pc' = "write"
        /\ UNCHANGED <<call, request, result, handle, pipes, nodeVars>>
     \/ /\ node = "exited"
        /\ Throw(ErrorOfExit(exitCode), stdout)
  /\ UNCHANGED <<metadata, exists>>

\* The process may die between isAlive and the write: an IOException.
WriteRequest ==
  /\ pc = "write"
  /\ \/ /\ node = "running"
        /\ stdin' = Append(stdin, request)
        /\ pc' = "read"
        /\ UNCHANGED <<call, request, result, handle, stdout, nodeVars>>
     \/ /\ node = "exited"
        /\ Throw("CatastrophicError", stdout)
  /\ UNCHANGED <<metadata, exists>>

\* readLine returns the answer; checkResponseType rejects an unexpected one.
\* When the answer is the metadata of a new process, setupParserWrapper is
\* done and talkToParserWrapper goes on with the caller's request.
ReadResponse ==
  /\ pc = "read" /\ stdout # <<>>
  /\ LET response == Head(stdout)
         expected == response.type = ExpectedType[request.command] IN
     \/ /\ ~expected
        /\ Throw("CatastrophicError", Tail(stdout))
        /\ UNCHANGED metadata
     \/ /\ expected /\ request = Metadata
        /\ metadata' = TRUE
        /\ request' = call
        /\ pc' = "check"
        /\ stdout' = Tail(stdout)
        /\ UNCHANGED <<call, result, handle, stdin, nodeVars>>
     \/ /\ expected /\ request # Metadata
        /\ Return("ok", response)
        /\ stdout' = Tail(stdout)
        /\ UNCHANGED <<handle, metadata, stdin, nodeVars>>
  /\ UNCHANGED exists

\* readLine returns null.  The exit code is available within a second, or the
\* wait for it times out and the exception is a CatastrophicError.
ReadEndOfStream ==
  /\ pc = "read" /\ stdout = <<>> /\ node = "exited"
  /\ Throw(ErrorOfExit(exitCode), stdout) \/ Throw("CatastrophicError", stdout)
  /\ UNCHANGED <<metadata, exists>>

KillProcess ==
  /\ pc = "idle"
  /\ Destroy
  /\ result' = NoResult
  /\ UNCHANGED <<pc, call, request, metadata, exists>>

ClientStep ==
  \/ ResetNothing \/ StartProcess \/ StartFails \/ CheckAlive
  \/ WriteRequest \/ ReadResponse \/ ReadEndOfStream

-----------------------------------------------------------------------------
(* The process.                                                            *)

\* The process ends.  What it wrote can still be read, its memory is gone.
Exit(code) ==
  /\ node' = "exited"
  /\ exitCode' = code
  /\ FreshState
  /\ reloaded' = FALSE
  /\ callbacks' = 0
  /\ stdin' = <<>>

\* One line of output.
Answer(response) == stdin' = <<>> /\ stdout' = Append(stdout, response)

\* The files matched by the inclusion pattern, and those createProgram reads
\* (Project.load), are files that exist now.
Included(p) == OwnFiles[p] \cap exists
Load(p) == ProgramFiles[p] \cap exists

\* getAstForFile: the AST comes from the open project's program, or else from
\* parsing the file on its own, which fails if the file cannot be read.
InProgram(f, prog) == project # NoProject /\ f \in prog \ Redirected
CanExtract(f, prog) == InProgram(f, prog) \/ f \in exists
AstOf(f, prog) ==
  [type |-> "ast", file |-> f,
   project |-> IF InProgram(f, prog) THEN project ELSE NoProject]

\* Mutant: the identities given to types are not kept.
RecordTypes_Not(f, prog) == UNCHANGED typeTable

\* Augmenting an AST with type information records the types in the table.
RecordTypes(f, prog) ==
  typeTable' = IF InProgram(f, prog) THEN typeTable \cup {<<f, project>>}
                                     ELSE typeTable

Handling(command) ==
  /\ node = "running" /\ stdin # <<>> /\ Head(stdin).command = command
  /\ UNCHANGED <<clientVars, exists>>

\* Mutant: only that some file is expected is checked.
NextFileIs_Any(f) == pendingFileIndex < Len(pendingFiles)

NextFileIs(f) ==
  pendingFileIndex < Len(pendingFiles) /\ pendingFiles[pendingFileIndex + 1] = f

HandleParse ==
  /\ Handling("parse")
  /\ callbacks < MaxCallbacks
  /\ LET f == Head(stdin).file IN
     \/ /\ ~NextFileIs(f)                   \* "File requested out of order"
        /\ Exit(UncaughtException)
        /\ UNCHANGED stdout
     \/ /\ NextFileIs(f) /\ pendingResponse = NoResponse
        /\ ~CanExtract(f, program)
        /\ Exit(UncaughtException)
        /\ UNCHANGED stdout
     \/ /\ NextFileIs(f)
        /\ \/ /\ pendingResponse # NoResponse
              /\ Answer(pendingResponse)
              /\ UNCHANGED typeTable
           \/ /\ pendingResponse = NoResponse /\ CanExtract(f, program)
              /\ Answer(AstOf(f, program))
              /\ RecordTypes(f, program)
        /\ pendingFileIndex' = pendingFileIndex + 1
        /\ pendingResponse' = NoResponse
        /\ callbacks' = callbacks + 1
        /\ UNCHANGED <<node, exitCode, project, program, pendingFiles, reloaded>>

\* Mutant: the AST parsed ahead for the old list is kept.
HandlePrepareFiles_Stale ==
  /\ Handling("prepare-files")
  /\ callbacks < MaxCallbacks
  /\ pendingFiles' = Head(stdin).files /\ pendingFileIndex' = 0
  /\ callbacks' = callbacks + 1
  /\ Answer([type |-> "ok"])
  /\ UNCHANGED <<node, exitCode, project, program, pendingResponse, typeTable, reloaded>>

\* Mutant: the position in the old list is kept.
HandlePrepareFiles_SameIndex ==
  /\ Handling("prepare-files")
  /\ callbacks < MaxCallbacks
  /\ pendingFiles' = Head(stdin).files /\ pendingResponse' = NoResponse
  /\ callbacks' = callbacks + 1
  /\ Answer([type |-> "ok"])
  /\ UNCHANGED <<node, exitCode, project, program, pendingFileIndex, typeTable, reloaded>>

HandlePrepareFiles ==
  /\ Handling("prepare-files")
  /\ callbacks < MaxCallbacks
  /\ pendingFiles' = Head(stdin).files
  /\ pendingFileIndex' = 0
  /\ pendingResponse' = NoResponse
  /\ callbacks' = callbacks + 1
  /\ Answer([type |-> "ok"])
  /\ UNCHANGED <<node, exitCode, project, program, typeTable, reloaded>>

HandleGetOwnFiles ==
  /\ Handling("get-own-files")
  /\ Answer([type |-> "file-list", ownFiles |-> Included(Head(stdin).tsConfig)])
  /\ UNCHANGED nodeVars

\* Mutant: each project has a type table of its own.
HandleOpenProject_NewTable ==
  /\ Handling("open-project")
  /\ LET p == Head(stdin).tsConfig IN
     /\ project' = p /\ program' = Load(p)
     /\ Answer([type |-> "project-opened", ownFiles |-> Included(p),
                 allFiles |-> Load(p)])
  /\ typeTable' = {}
  /\ UNCHANGED <<node, exitCode, batchVars, reloaded, callbacks>>

HandleOpenProject ==
  /\ Handling("open-project")
  /\ LET p == Head(stdin).tsConfig IN
     /\ project' = p
     /\ program' = Load(p)
     /\ Answer([type |-> "project-opened", ownFiles |-> Included(p),
                 allFiles |-> Load(p)])
  /\ UNCHANGED <<node, exitCode, batchVars, typeTable, reloaded, callbacks>>

HandleCloseProject ==
  /\ Handling("close-project")
  /\ \/ /\ project = NoProject
        /\ Answer([type |-> "error"])
        /\ UNCHANGED <<project, program>>
     \/ /\ project # NoProject
        /\ project' = NoProject
        /\ program' = {}
        /\ Answer([type |-> "project-closed"])
  /\ UNCHANGED <<node, exitCode, batchVars, typeTable, reloaded, callbacks>>

HandleGetTypeTable ==
  /\ Handling("get-type-table")
  /\ Answer([type |-> "type-table", types |-> typeTable])
  /\ UNCHANGED nodeVars

HandleGetMetadata ==
  /\ Handling("get-metadata")
  /\ Answer([type |-> "metadata"])
  /\ UNCHANGED nodeVars

\* Mutant: the open project survives.
HandleReset_KeepsProject ==
  /\ Handling("reset")
  /\ pendingFiles' = <<>> /\ pendingFileIndex' = 0 /\ pendingResponse' = NoResponse
  /\ typeTable' = {}
  /\ Answer([type |-> "reset-done"])
  /\ UNCHANGED <<node, exitCode, project, program, reloaded, callbacks>>

\* reset() replaces the State object; hasReloadedSinceExceedingThreshold and
\* the callbacks already queued are not part of it.
HandleReset ==
  /\ Handling("reset")
  /\ FreshState
  /\ Answer([type |-> "reset-done"])
  /\ UNCHANGED <<node, exitCode, reloaded, callbacks>>

\* The callback of a flushed answer: prepareNextFile, with checkMemoryUsage.
PrepareNextFile ==
  /\ node = "running" /\ callbacks > 0
  /\ \/ /\ pendingResponse # NoResponse \/ pendingFileIndex >= Len(pendingFiles)
        /\ callbacks' = callbacks - 1
        /\ UNCHANGED <<node, exitCode, stateVars, reloaded, stdin>>
     \/ /\ pendingResponse = NoResponse /\ pendingFileIndex < Len(pendingFiles)
        /\ \E heap \in {"below", "at", "above"} :   \* the reload threshold
             LET f == pendingFiles[pendingFileIndex + 1]
                 reload == ~reloaded /\ heap = "above" /\ project # NoProject
                 prog == IF reload THEN Load(project) ELSE program IN
             \/ /\ CanExtract(f, prog)
                /\ program' = prog
                /\ pendingResponse' = AstOf(f, prog)
                /\ RecordTypes(f, prog)
                /\ reloaded' = (reload \/ (reloaded /\ heap # "below"))
                /\ callbacks' = callbacks - 1
                /\ UNCHANGED <<node, exitCode, project, pendingFiles,
                               pendingFileIndex, stdin>>
             \/ /\ ~CanExtract(f, prog)
                /\ Exit(UncaughtException)
  /\ UNCHANGED <<clientVars, stdout, exists>>

\* The process may die while it works or waits: the heap is exhausted, or the
\* compiler throws on the code it is given.
Crash ==
  /\ node = "running"
  /\ \E code \in CrashCodes : Exit(code)
  /\ UNCHANGED <<clientVars, stdout, exists>>

HandleLine ==
  \/ HandleParse \/ HandlePrepareFiles \/ HandleGetOwnFiles
  \/ HandleOpenProject \/ HandleCloseProject \/ HandleGetTypeTable
  \/ HandleGetMetadata \/ HandleReset

\* Another program deletes a file.
DeleteFile(f) ==
  /\ f \in Deletable \cap exists
  /\ exists' = exists \ {f}
  /\ UNCHANGED <<clientVars, pipes, nodeVars>>

-----------------------------------------------------------------------------
ParserInit ==
  /\ pc = "idle"
  /\ call = NoCall
  /\ request = NoCall
  /\ result = NoResult
  /\ handle = FALSE
  /\ metadata = FALSE
  /\ stdin = <<>>
  /\ stdout = <<>>
  /\ node = "absent"
  /\ exitCode = 0
  /\ project = NoProject
  /\ program = {}
  /\ pendingFiles = <<>>
  /\ pendingFileIndex = 0
  /\ pendingResponse = NoResponse
  /\ typeTable = {}
  /\ reloaded = FALSE
  /\ callbacks = 0

Init == ParserInit /\ exists = File

Internal == ClientStep \/ HandleLine \/ PrepareNextFile \/ Crash

Next ==
  \/ \E c \in Call : Invoke(c)
  \/ KillProcess
  \/ Internal
  \/ \E f \in File : DeleteFile(f)

\* The client runs, and the operating system schedules the process; neither
\* is assumed to survive, and nobody has to make a call.
Fairness ==
  /\ WF_parserVars(ClientStep)
  /\ WF_parserVars(HandleLine)
  /\ WF_parserVars(PrepareNextFile)

Spec == Init /\ [][Next]_parserVars
FairSpec == Spec /\ Fairness

-----------------------------------------------------------------------------
(* Properties.                                                             *)

Idle == pc = "idle"
Succeeded(command) ==
  /\ Idle /\ result # NoResult
  /\ result.outcome = "ok" /\ result.call.command = command

\* Every variable ranges over the values the two programs can give it.
TypeOK ==
  /\ pc \in {"idle", "start", "check", "write", "read"}
  /\ call \in Call \cup {NoCall}
  /\ request \in Request \cup {NoCall}
  /\ result \in Result \cup {NoResult}
  /\ handle \in BOOLEAN
  /\ metadata \in BOOLEAN
  /\ stdin \in Seq(Request)
  /\ stdout \in Seq(Response)
  /\ node \in {"absent", "running", "exited"}
  /\ exitCode \in OutOfMemoryCodes \cup {0, UncaughtException}
  /\ project \in Project \cup {NoProject}
  /\ program \in SUBSET File
  /\ pendingFiles \in Seq(File)
  /\ pendingFileIndex \in Nat
  /\ pendingResponse \in Ast \cup {NoResponse}
  /\ typeTable \in SUBSET (File \X Project)
  /\ reloaded \in BOOLEAN
  /\ callbacks \in 0..MaxCallbacks
  /\ exists \in SUBSET File

\* A parse call that succeeds returns the AST of the file it named, although
\* the process parsed that file before it was asked to and the answer may have
\* been waiting across other calls (parse, handleParseCommand).
AnswerIsForRequestedFile ==
  Succeeded("parse") => result.response.file = result.call.file

\* The AST parsed ahead is the one of the file that will be asked for next,
\* whatever calls come between (prepareNextFile, handlePrepareFilesCommand).
ReadAheadIsNext ==
  pendingResponse # NoResponse => NextFileIs(pendingResponse.file)

\* Between two requests nothing is left in either pipe: no answer can be read
\* for a later request, even after a call has failed (talkToParserWrapper).
PipesInStep ==
  pc # "read" => stdin = <<>> /\ stdout = <<>>

\* The answer to a parse request is the AST of the file it names.
AnswerTo(r, response) ==
  r.command = "parse" /\ response.type = "ast" => response.file = r.file

\* The client and the process take turns: while the client waits, either its
\* request is in one pipe, or one answer, and an answer to that request, is in
\* the other, or the process has died and both are empty; and the client waits
\* for a process only when there is one (talkToParserWrapper).
Lockstep ==
  /\ handle <=> node # "absent"
  /\ pc # "idle" => call \in Call /\ request \in {call, Metadata}
  /\ pc = "start" => ~handle
  /\ pc \in {"check", "write", "read"} => handle
  /\ PipesInStep
  /\ pc = "read" =>
       \/ stdin = <<request>> /\ stdout = <<>> /\ node = "running"
       \/ stdin = <<>> /\ Len(stdout) = 1 /\ AnswerTo(request, Head(stdout))
       \/ stdin = <<>> /\ stdout = <<>> /\ node = "exited"

\* What is inductive: with the types, the turns make the read-ahead safe.
ParserInv == TypeOK /\ Lockstep /\ ReadAheadIsNext /\ AnswerIsForRequestedFile

\* What is left of the effect of c until the next call is handled.
HasTakenEffect(c) ==
  /\ c.command = "open-project" => project = c.tsConfig
  /\ c.command = "close-project" => project = NoProject
  /\ c.command = "prepare-files" =>
       pendingFiles = c.files /\ pendingFileIndex = 0
  /\ c.command = "reset" =>
       /\ project = NoProject /\ typeTable = {}
       /\ pendingFiles = <<>> /\ pendingResponse = NoResponse

\* When a call has returned normally, the process is in the state the call
\* asked for, unless it has died since (openProject, closeProject,
\* prepareFiles and reset against their handlers).
SuccessMeansEffect ==
  node = "running" /\ Idle /\ result # NoResult /\ result.outcome = "ok"
    => HasTakenEffect(result.call)

\* The types of an AST that was handed out with type information are in the
\* table a get-type-table call would return: closing and opening projects,
\* preparing files and restarting the compiler keep them (TypeTable is shared
\* by all projects of a process).
TypesOfAnswerAreInTable ==
  Succeeded("parse") /\ node = "running" /\ result.response.project # NoProject
    => <<result.call.file, result.response.project>> \in typeTable

\* An AST is only converted when the metadata of a process has been loaded
\* (the TypeScriptASTConverter is given this.metadata).
MetadataBeforeAst == Succeeded("parse") => metadata

\* Recorded types are only forgotten by a reset or with the process: a
\* restart of the compiler keeps the identities it has given out.
TypesAreKept ==
  [][typeTable \subseteq typeTable' \/ node' # "running" \/ call.command = "reset"]_typeTable

\* Every call returns, normally or by an exception, also when the process dies
\* before, while or after it handles the request (readLine does not hang).
CallReturns == (pc # "idle") ~> (pc = "idle")

-----------------------------------------------------------------------------
(* What is inductive about the effects of calls.                           *)

\* The memory of the process goes with it.
StateIsLost ==
  node # "running" =>
    /\ project = NoProject /\ program = {}
    /\ pendingFiles = <<>> /\ pendingFileIndex = 0 /\ pendingResponse = NoResponse
    /\ typeTable = {}

\* The answer in the pipe.
Answering == pc = "read" /\ stdout # <<>>

\* Only close-project can be answered by an error.
AnswersMatch ==
  Answering =>
    \/ Head(stdout).type = ExpectedType[request.command]
    \/ request.command = "close-project" /\ Head(stdout).type = "error"

\* A process whose metadata has not been read is asked for it now, or has died
\* without an answer.
MetadataIsFirst ==
  handle /\ ~metadata =>
    \/ pc # "idle" /\ request = Metadata
    \/ node = "exited" /\ stdout = <<>>

\* While the answer is on its way nothing undoes what it reports.
AnswerMeansEffect ==
  node = "running" /\ Answering /\ request = call
    /\ Head(stdout).type = ExpectedType[call.command] => HasTakenEffect(call)

\* The types of an AST are in the table before it is handed out.
TypesAreRecorded(ast) ==
  ast.project # NoProject => <<ast.file, ast.project>> \in typeTable

TypesOfAstsAreInTable ==
  /\ pendingResponse # NoResponse => TypesAreRecorded(pendingResponse)
  /\ node = "running" /\ Answering /\ Head(stdout).type = "ast"
       => TypesAreRecorded(Head(stdout))
  /\ Succeeded("parse") => result.response.type = "ast"

EffectInv ==
  /\ StateIsLost /\ AnswersMatch /\ MetadataIsFirst /\ AnswerMeansEffect
  /\ SuccessMeansEffect /\ TypesOfAstsAreInTable /\ TypesOfAnswerAreInTable
  /\ MetadataBeforeAst
=============================================================================
