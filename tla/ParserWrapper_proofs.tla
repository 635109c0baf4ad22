------------------------ MODULE ParserWrapper_proofs -------------------------
(***************************************************************************)
(* Proofs about ParserWrapper: types, the turns of client and process,     *)
(* and that a parse call is answered with the AST of the file it names,    *)
(* although that file has been parsed ahead; then what a call that has     *)
(* returned leaves behind in the process: its effect, the types of its     *)
(* answer and the metadata.                                                *)
(***************************************************************************)
EXTENDS ParserWrapper, SequenceTheorems, TLAPS

\* The parts of TypeOK, by the group of variables they are about.
ClientTypeOK ==
  /\ pc \in {"idle", "start", "check", "write", "read"}
  /\ call \in Call \cup {NoCall}
  /\ request \in Request \cup {NoCall}
  /\ result \in Result \cup {NoResult}
  /\ handle \in BOOLEAN
  /\ metadata \in BOOLEAN

PipesTypeOK == stdin \in Seq(Request) /\ stdout \in Seq(Response)

StateTypeOK ==
  /\ project \in Project \cup {NoProject}
  /\ program \in SUBSET File
  /\ pendingFiles \in Seq(File)
  /\ pendingFileIndex \in Nat
  /\ pendingResponse \in Ast \cup {NoResponse}
  /\ typeTable \in SUBSET (File \X Project)

NodeTypeOK ==
  /\ node \in {"absent", "running", "exited"}
  /\ exitCode \in OutOfMemoryCodes \cup {0, UncaughtException}
  /\ StateTypeOK
  /\ reloaded \in BOOLEAN
  /\ callbacks \in 0..MaxCallbacks

LEMMA TypeOKParts ==
  TypeOK <=> ClientTypeOK /\ PipesTypeOK /\ NodeTypeOK /\ exists \in SUBSET File
BY DEF TypeOK, ClientTypeOK, PipesTypeOK, NodeTypeOK, StateTypeOK

LEMMA TypeOKPartsPrimed ==
  TypeOK' <=> ClientTypeOK' /\ PipesTypeOK' /\ NodeTypeOK' /\ (exists \in SUBSET File)'
BY DEF TypeOK, ClientTypeOK, PipesTypeOK, NodeTypeOK, StateTypeOK

-----------------------------------------------------------------------------
(* Helpers.                                                                *)

\* The assumptions the proofs use, without those on the null values.
LEMMA Constants ==
  /\ MaxCallbacks \in Nat \ {0}
  /\ 0 \in 0..MaxCallbacks
  /\ OwnFiles \in [Project -> SUBSET File]
  /\ ProgramFiles \in [Project -> SUBSET File]
  /\ Batches \subseteq Seq(File)
  /\ CrashCodes \subseteq {1, 5, 134}
  /\ StartErrors \subseteq Errors
<1>1. MaxCallbacks \in Nat \ {0}
  BY ParserAssumption
<1>2. 0 \in 0..MaxCallbacks
  BY <1>1
<1> QED
  BY <1>1, <1>2, ParserAssumption

\* A fresh process has a well-typed state with nothing parsed ahead.
LEMMA FreshStateOK ==
  ASSUME FreshState
  PROVE  StateTypeOK' /\ pendingResponse' = NoResponse
BY DEF FreshState, StateTypeOK

LEMMA FreshProcessOK ==
  ASSUME FreshProcess, node' \in {"absent", "running", "exited"}
  PROVE  NodeTypeOK' /\ pendingResponse' = NoResponse
BY FreshStateOK, Constants DEF FreshProcess, NodeTypeOK

LEMMA ExitOK ==
  ASSUME NEW code \in OutOfMemoryCodes \cup {UncaughtException}, Exit(code)
  PROVE  NodeTypeOK' /\ pendingResponse' = NoResponse
BY FreshStateOK, Constants DEF Exit, NodeTypeOK

\* The answers of the process are responses.
LEMMA AstOfType ==
  ASSUME TypeOK, NEW f \in File, NEW prog
  PROVE  /\ AstOf(f, prog) \in Ast
         /\ AstOf(f, prog).file = f
         /\ AstOf(f, prog).type = "ast"
BY DEF TypeOK, AstOf, Ast

LEMMA RecordTypesType ==
  ASSUME TypeOK, NEW f \in File, NEW prog, RecordTypes(f, prog)
  PROVE  typeTable' \in SUBSET (File \X Project)
BY DEF TypeOK, RecordTypes, InProgram

LEMMA AnswerType ==
  ASSUME stdout = <<>>, NEW a \in Response, Answer(a)
  PROVE  /\ PipesTypeOK'
         /\ stdin' = <<>>
         /\ Len(stdout') = 1
         /\ Head(stdout') = a
BY DEF Answer, PipesTypeOK

\* What NextFileIs says of one file, it says of no other.
LEMMA NextFileUnique ==
  ASSUME NEW f, NEW g, NextFileIs(f), NextFileIs(g)
  PROVE  f = g
BY DEF NextFileIs

-----------------------------------------------------------------------------
\* Whatever files there are.
LEMMA ParserInitInv ==
  ASSUME ParserInit, exists \in SUBSET File
  PROVE  ParserInv
<1> USE DEF ParserInit
<1>1. ClientTypeOK
  BY DEF ClientTypeOK
<1>2. PipesTypeOK
  BY DEF PipesTypeOK
<1>3. NodeTypeOK
  <2>1. StateTypeOK
    BY DEF StateTypeOK
  <2>2. callbacks \in 0..MaxCallbacks
    BY Constants
  <2> QED
    BY <2>1, <2>2 DEF NodeTypeOK
<1>4. TypeOK
  BY <1>1, <1>2, <1>3, TypeOKParts
<1>5. Lockstep
  BY DEF Lockstep, PipesInStep
<1>6. ReadAheadIsNext /\ AnswerIsForRequestedFile
  BY DEF ReadAheadIsNext, AnswerIsForRequestedFile, Succeeded
<1> QED
  BY <1>4, <1>5, <1>6 DEF ParserInv

THEOREM InitInv == Init => ParserInv
BY ParserInitInv DEF Init

-----------------------------------------------------------------------------
(* The client.                                                             *)

LEMMA NothingReadAhead ==
  ASSUME pendingResponse' = NoResponse
  PROVE  ReadAheadIsNext'
BY DEF ReadAheadIsNext

LEMMA SameReadAhead ==
  ASSUME ReadAheadIsNext, UNCHANGED batchVars
  PROVE  ReadAheadIsNext'
BY DEF ReadAheadIsNext, NextFileIs, batchVars

LEMMA SameNode ==
  ASSUME NodeTypeOK, UNCHANGED nodeVars
  PROVE  NodeTypeOK'
BY DEF NodeTypeOK, StateTypeOK, nodeVars, stateVars, batchVars

LEMMA SamePipes ==
  ASSUME PipesTypeOK, UNCHANGED pipes
  PROVE  PipesTypeOK'
BY DEF PipesTypeOK, pipes

\* Nothing can be wrong with an answer while a call is in progress.
LEMMA NoAnswerYet ==
  ASSUME pc' # "idle"
  PROVE  AnswerIsForRequestedFile'
BY DEF AnswerIsForRequestedFile, Succeeded, Idle

LEMMA ReturnType ==
  ASSUME NEW outcome \in Errors \cup {"ok"}, NEW response \in Response \cup {NoResponse},
         TypeOK, call \in Call,
         Return(outcome, response),
         handle' \in BOOLEAN, metadata' \in BOOLEAN
  PROVE  ClientTypeOK'
<1>1. result' \in Result
  BY DEF Return, Result
<1> QED
  BY <1>1 DEF Return, ClientTypeOK

\* An exception leaves the client idle and the pipes empty.
LEMMA ThrowInv ==
  ASSUME ParserInv, NEW error \in Errors, Throw(error, <<>>),
         call \in Call, stdin = <<>>,
         UNCHANGED <<metadata, exists>>
  PROVE  ParserInv'
<1>1. TypeOK /\ ClientTypeOK /\ PipesTypeOK /\ NodeTypeOK /\ exists \in SUBSET File
  BY TypeOKParts DEF ParserInv
<1>2. Lockstep /\ ReadAheadIsNext
  BY DEF ParserInv
<1>3. CASE Destroy /\ Return("ok", NoResponse) /\ call.command = "reset"
  <2>1. NodeTypeOK' /\ pendingResponse' = NoResponse
    BY <1>3, FreshProcessOK DEF Destroy
  <2>2. ClientTypeOK'
    BY <1>1, <1>3, ReturnType DEF Destroy, ClientTypeOK
  <2>3. TypeOK'
    BY <1>1, <1>3, <2>1, <2>2, TypeOKPartsPrimed DEF Destroy, PipesTypeOK
  <2>4. Lockstep'
    BY <1>3 DEF Lockstep, PipesInStep, Destroy, Return
  <2>5. AnswerIsForRequestedFile'
    BY <1>3 DEF AnswerIsForRequestedFile, Succeeded, Return
  <2> QED
    BY <2>1, <2>3, <2>4, <2>5, NothingReadAhead DEF ParserInv
<1>4. CASE Return(error, NoResponse) /\ stdout' = <<>> /\ UNCHANGED <<handle, stdin, nodeVars>>
  <2>1. NodeTypeOK' /\ ReadAheadIsNext'
    BY <1>1, <1>2, <1>4, SameNode, SameReadAhead DEF nodeVars, stateVars
  <2>2. ClientTypeOK'
    BY <1>1, <1>4, ReturnType DEF ClientTypeOK
  <2>3. TypeOK'
    BY <1>1, <1>4, <2>1, <2>2, TypeOKPartsPrimed DEF PipesTypeOK
  <2>4. Lockstep'
    BY <1>2, <1>4 DEF Lockstep, PipesInStep, Return, nodeVars
  <2>5. AnswerIsForRequestedFile'
    BY <1>4 DEF AnswerIsForRequestedFile, Succeeded, Return, Errors
  <2> QED
    BY <2>1, <2>3, <2>4, <2>5 DEF ParserInv
<1> QED
  BY <1>3, <1>4 DEF Throw

\* A step of the client that leaves the process and the read-ahead alone and
\* is not a return.
LEMMA TalkInv ==
  ASSUME ParserInv, ClientTypeOK', PipesTypeOK', Lockstep', pc' # "idle",
         UNCHANGED <<nodeVars, exists>>
  PROVE  ParserInv'
<1>1. NodeTypeOK /\ ReadAheadIsNext /\ exists \in SUBSET File
  BY TypeOKParts DEF ParserInv
<1>2. NodeTypeOK' /\ ReadAheadIsNext'
  BY <1>1, SameNode, SameReadAhead DEF nodeVars, stateVars
<1>3. TypeOK'
  BY <1>1, <1>2, TypeOKPartsPrimed
<1> QED
  BY <1>2, <1>3, NoAnswerYet DEF ParserInv

LEMMA InvokeInv ==
  ASSUME ParserInv, NEW c \in Call, Invoke(c)
  PROVE  ParserInv'
<1>1. ClientTypeOK /\ PipesTypeOK /\ Lockstep
  BY TypeOKParts DEF ParserInv
<1>2. ClientTypeOK'
  BY <1>1 DEF Invoke, ClientTypeOK, Call
<1>3. PipesTypeOK'
  BY <1>1, SamePipes DEF Invoke
<1>4. Lockstep'
  BY <1>1 DEF Invoke, Lockstep, PipesInStep, pipes, nodeVars
<1> QED
  BY <1>2, <1>3, <1>4, TalkInv DEF Invoke

LEMMA ResetNothingInv ==
  ASSUME ParserInv, ResetNothing
  PROVE  ParserInv'
<1>1. ClientTypeOK /\ PipesTypeOK /\ NodeTypeOK /\ Lockstep /\ ReadAheadIsNext
      /\ TypeOK /\ exists \in SUBSET File
  BY TypeOKParts DEF ParserInv
<1>2. call \in Call
  BY <1>1 DEF ResetNothing, Lockstep
<1>3. ClientTypeOK'
  BY <1>1, <1>2, ReturnType DEF ResetNothing, ClientTypeOK
<1>4. PipesTypeOK' /\ NodeTypeOK' /\ ReadAheadIsNext'
  BY <1>1, SamePipes, SameNode, SameReadAhead DEF ResetNothing, nodeVars, stateVars
<1>5. TypeOK'
  BY <1>1, <1>3, <1>4, TypeOKPartsPrimed DEF ResetNothing
<1>6. Lockstep'
  BY <1>1 DEF ResetNothing, Return, Lockstep, PipesInStep, pipes, nodeVars
<1>7. AnswerIsForRequestedFile'
  BY DEF AnswerIsForRequestedFile, Succeeded, ResetNothing, Return
<1> QED
  BY <1>4, <1>5, <1>6, <1>7 DEF ParserInv

LEMMA StartProcessInv ==
  ASSUME ParserInv, StartProcess
  PROVE  ParserInv'
<1>1. ClientTypeOK /\ PipesTypeOK /\ Lockstep /\ exists \in SUBSET File
  BY TypeOKParts DEF ParserInv
<1>2. NodeTypeOK' /\ pendingResponse' = NoResponse
  BY FreshProcessOK DEF StartProcess
<1>3. Metadata \in Request
  BY DEF Metadata, Request, Commands
<1>4. ClientTypeOK'
  BY <1>1, <1>3 DEF StartProcess, ClientTypeOK
<1>5. TypeOK'
  BY <1>1, <1>2, <1>4, SamePipes, TypeOKPartsPrimed DEF StartProcess
<1>6. Lockstep'
  BY <1>1 DEF StartProcess, Lockstep, PipesInStep, pipes
<1> QED
  BY <1>2, <1>5, <1>6, NothingReadAhead, NoAnswerYet DEF ParserInv, StartProcess

LEMMA StartFailsInv ==
  ASSUME ParserInv, StartFails
  PROVE  ParserInv'
<1>1. call \in Call /\ stdin = <<>> /\ stdout = <<>>
  BY DEF StartFails, ParserInv, Lockstep, PipesInStep
<1> QED
  BY <1>1, Constants, ThrowInv DEF StartFails

LEMMA CheckAliveInv ==
  ASSUME ParserInv, CheckAlive
  PROVE  ParserInv'
<1>1. ClientTypeOK /\ PipesTypeOK /\ Lockstep
  BY TypeOKParts DEF ParserInv
<1>2. CASE node = "running"
  <2>1. ClientTypeOK' /\ PipesTypeOK'
    BY <1>1, <1>2, SamePipes DEF CheckAlive, ClientTypeOK
  <2>2. Lockstep'
    BY <1>1, <1>2 DEF CheckAlive, Lockstep, PipesInStep, pipes, nodeVars
  <2> QED
    BY <1>2, <2>1, <2>2, TalkInv DEF CheckAlive
<1>3. CASE node = "exited"
  <2>1. call \in Call /\ stdin = <<>> /\ stdout = <<>>
    BY <1>1 DEF CheckAlive, Lockstep, PipesInStep
  <2> QED
    BY <1>3, <2>1, ThrowInv DEF CheckAlive, ErrorOfExit, Errors
<1> QED
  BY <1>2, <1>3 DEF CheckAlive

LEMMA WriteRequestInv ==
  ASSUME ParserInv, WriteRequest
  PROVE  ParserInv'
<1>1. ClientTypeOK /\ PipesTypeOK /\ Lockstep
  BY TypeOKParts DEF ParserInv
<1>2. call \in Call /\ stdin = <<>> /\ stdout = <<>>
  BY <1>1 DEF WriteRequest, Lockstep, PipesInStep
<1>3. CASE node = "running"
  <2>1. request \in Request
    BY <1>1, <1>2 DEF WriteRequest, Lockstep, Call, Metadata, Request, Commands
  <2>2. stdin' = <<request>> /\ stdout' = <<>>
    BY <1>2, <1>3 DEF WriteRequest
  <2>3. ClientTypeOK'
    BY <1>1, <1>3 DEF WriteRequest, ClientTypeOK
  <2>4. PipesTypeOK'
    BY <2>1, <2>2 DEF PipesTypeOK
  <2>5. Lockstep'
    BY <1>1, <1>3, <2>2 DEF WriteRequest, Lockstep, PipesInStep, nodeVars
  <2> QED
    BY <1>3, <2>3, <2>4, <2>5, TalkInv DEF WriteRequest
<1>4. CASE node = "exited"
  BY <1>2, <1>4, ThrowInv DEF WriteRequest, Errors
<1> QED
  BY <1>3, <1>4 DEF WriteRequest

LEMMA ReadEndOfStreamInv ==
  ASSUME ParserInv, ReadEndOfStream
  PROVE  ParserInv'
<1>1. call \in Call /\ stdin = <<>> /\ stdout = <<>>
  BY DEF ReadEndOfStream, ParserInv, Lockstep
<1> QED
  BY <1>1, ThrowInv DEF ReadEndOfStream, ErrorOfExit, Errors

\* A pipe that holds one line.
LEMMA OneLine ==
  ASSUME NEW S, NEW s \in Seq(S), Len(s) = 1
  PROVE  Head(s) \in S /\ Tail(s) = <<>>
<1>1. Tail(s) \in Seq(S) /\ Len(Tail(s)) = 0
  OBVIOUS
<1>2. Tail(s) # <<>> => Len(Tail(s)) \in Nat \ {0}
  BY <1>1, EmptySeq, Zenon
<1> QED
  BY <1>1, <1>2

LEMMA ReadResponseInv ==
  ASSUME ParserInv, ReadResponse
  PROVE  ParserInv'
<1> DEFINE response == Head(stdout)
           expected == response.type = ExpectedType[request.command]
<1>1. TypeOK /\ ClientTypeOK /\ PipesTypeOK /\ NodeTypeOK /\ Lockstep /\ ReadAheadIsNext
      /\ exists \in SUBSET File
  BY TypeOKParts DEF ParserInv
<1>2. /\ call \in Call /\ request \in {call, Metadata}
      /\ stdin = <<>> /\ Len(stdout) = 1 /\ AnswerTo(request, response)
  BY <1>1 DEF ReadResponse, Lockstep
<1>3. response \in Response /\ Tail(stdout) = <<>>
  BY <1>1, <1>2, OneLine DEF PipesTypeOK
<1>4. CASE ~expected /\ Throw("CatastrophicError", Tail(stdout)) /\ UNCHANGED metadata
  BY <1>2, <1>3, <1>4, ThrowInv DEF ReadResponse, Errors
<1>5. CASE /\ request = Metadata
           /\ metadata' = TRUE
           /\ request' = call
           /\ pc' = "check"
           /\ stdout' = Tail(stdout)
           /\ UNCHANGED <<call, result, handle, stdin, nodeVars>>
  <2>1. ClientTypeOK'
    BY <1>1, <1>2, <1>5 DEF ClientTypeOK, Call
  <2>2. stdin' = <<>> /\ stdout' = <<>> /\ PipesTypeOK'
    <3>1. stdin' = <<>> /\ stdout' = <<>>
      BY <1>2, <1>3, <1>5
    <3> QED
      BY <3>1 DEF PipesTypeOK
  <2>3. Lockstep'
    BY <1>1, <1>2, <1>5, <2>2 DEF ReadResponse, Lockstep, PipesInStep, nodeVars
  <2> QED
    BY <1>5, <2>1, <2>2, <2>3, TalkInv DEF ReadResponse
<1>6. CASE /\ expected /\ request # Metadata
           /\ Return("ok", response)
           /\ stdout' = Tail(stdout)
           /\ UNCHANGED <<handle, metadata, stdin, nodeVars>>
  <2>1. ClientTypeOK'
    BY <1>1, <1>2, <1>3, <1>6, ReturnType DEF ClientTypeOK
  <2>2. stdin' = <<>> /\ stdout' = <<>> /\ PipesTypeOK'
    <3>1. stdin' = <<>> /\ stdout' = <<>>
      BY <1>2, <1>3, <1>6
    <3> QED
      BY <3>1 DEF PipesTypeOK
  <2>3. NodeTypeOK' /\ ReadAheadIsNext'
    BY <1>1, <1>6, SameNode, SameReadAhead DEF nodeVars, stateVars
  <2>4. TypeOK'
    BY <1>1, <2>1, <2>2, <2>3, TypeOKPartsPrimed DEF ReadResponse
  <2>5. Lockstep'
    BY <1>1, <1>6, <2>2 DEF ReadResponse, Return, Lockstep, PipesInStep, nodeVars
  <2>6. AnswerIsForRequestedFile'
    <3>1. SUFFICES ASSUME call.command = "parse"
                   PROVE  response.file = call.file
      BY <1>6 DEF AnswerIsForRequestedFile, Succeeded, Return
    <3>2. request = call
      BY <1>2, <1>6
    <3>3. response.type = "ast"
      BY <1>6, <3>1, <3>2 DEF ExpectedType
    <3> QED
      BY <1>2, <3>1, <3>2, <3>3 DEF AnswerTo
  <2> QED
    BY <2>3, <2>4, <2>5, <2>6 DEF ParserInv
<1> QED
  BY <1>4, <1>5, <1>6 DEF ReadResponse

LEMMA KillProcessInv ==
  ASSUME ParserInv, KillProcess
  PROVE  ParserInv'
<1>1. ClientTypeOK /\ Lockstep /\ exists \in SUBSET File
  BY TypeOKParts DEF ParserInv
<1>2. NodeTypeOK' /\ pendingResponse' = NoResponse
  BY FreshProcessOK DEF KillProcess, Destroy
<1>3. ClientTypeOK'
  BY <1>1 DEF KillProcess, Destroy, ClientTypeOK
<1>4. TypeOK'
  BY <1>1, <1>2, <1>3, TypeOKPartsPrimed DEF KillProcess, Destroy, PipesTypeOK
<1>5. Lockstep'
  BY <1>1 DEF KillProcess, Destroy, Lockstep, PipesInStep
<1>6. AnswerIsForRequestedFile'
  BY DEF AnswerIsForRequestedFile, Succeeded, KillProcess
<1> QED
  BY <1>2, <1>4, <1>5, <1>6, NothingReadAhead DEF ParserInv

-----------------------------------------------------------------------------
(* The process.                                                            *)

LEMMA SameClient ==
  ASSUME ClientTypeOK, AnswerIsForRequestedFile, UNCHANGED clientVars
  PROVE  ClientTypeOK' /\ AnswerIsForRequestedFile'
BY DEF ClientTypeOK, AnswerIsForRequestedFile, Succeeded, Idle, clientVars

\* The process is given a request only while the client waits for its answer.
LEMMA HandlingTurn ==
  ASSUME ParserInv, NEW command, Handling(command)
  PROVE  /\ pc = "read" /\ handle
         /\ request = Head(stdin) /\ request \in Request
         /\ request.command = command
         /\ stdout = <<>>
BY TypeOKParts DEF ParserInv, Lockstep, PipesInStep, Handling, ClientTypeOK, PipesTypeOK

\* What every handler has to establish when it answers.
LEMMA AnswerInv ==
  ASSUME ParserInv, NEW command, Handling(command),
         NEW a \in Response, Answer(a), AnswerTo(request, a),
         node' = "running", NodeTypeOK', ReadAheadIsNext'
  PROVE  ParserInv'
<1>1. ClientTypeOK /\ AnswerIsForRequestedFile /\ Lockstep /\ exists \in SUBSET File
  BY TypeOKParts DEF ParserInv
<1>2. pc = "read" /\ handle /\ stdout = <<>>
  BY HandlingTurn
<1>3. ClientTypeOK' /\ AnswerIsForRequestedFile'
  BY <1>1, SameClient DEF Handling
<1>4. PipesTypeOK' /\ stdin' = <<>> /\ Len(stdout') = 1 /\ Head(stdout') = a
  BY <1>2, AnswerType
<1>5. TypeOK'
  BY <1>1, <1>3, <1>4, TypeOKPartsPrimed DEF Handling
<1>6. Lockstep'
  <2>1. AnswerTo(request', Head(stdout'))
    BY <1>4 DEF Handling, clientVars
  <2> QED
    BY <1>1, <1>2, <1>4, <2>1 DEF Handling, Lockstep, PipesInStep, clientVars
<1> QED
  BY <1>3, <1>5, <1>6 DEF ParserInv

\* What the end of the process leaves.
LEMMA ExitInv ==
  ASSUME ParserInv, node = "running",
         NEW code \in OutOfMemoryCodes \cup {UncaughtException}, Exit(code),
         UNCHANGED <<clientVars, stdout, exists>>
  PROVE  ParserInv'
<1>1. ClientTypeOK /\ PipesTypeOK /\ AnswerIsForRequestedFile /\ Lockstep
      /\ exists \in SUBSET File
  BY TypeOKParts DEF ParserInv
<1>2. NodeTypeOK' /\ ReadAheadIsNext'
  BY ExitOK, NothingReadAhead
<1>3. ClientTypeOK' /\ AnswerIsForRequestedFile'
  BY <1>1, SameClient
<1>4. TypeOK'
  BY <1>1, <1>2, <1>3, TypeOKPartsPrimed DEF Exit, PipesTypeOK
<1>5. Lockstep'
  <2>1. AnswerTo(request, Head(stdout)) <=> AnswerTo(request', Head(stdout'))
    BY DEF clientVars
  <2> QED
    BY <1>1, <2>1 DEF Exit, Lockstep, PipesInStep, clientVars
<1> QED
  BY <1>2, <1>3, <1>4, <1>5 DEF ParserInv

LEMMA SimpleAnswers ==
  /\ [type |-> "ok"] \in Response
  /\ [type |-> "metadata"] \in Response
  /\ [type |-> "reset-done"] \in Response
  /\ [type |-> "project-closed"] \in Response
  /\ [type |-> "error"] \in Response
BY DEF Response

LEMMA HandleParseInv ==
  ASSUME ParserInv, HandleParse
  PROVE  ParserInv'
<1> DEFINE f == Head(stdin).file
<1>1. TypeOK /\ NodeTypeOK /\ ReadAheadIsNext
  BY TypeOKParts DEF ParserInv
<1>2. Handling("parse") /\ node = "running"
  BY DEF HandleParse, Handling
<1>3. request.file = f /\ f \in File
  BY <1>2, HandlingTurn DEF Request, ProjectCommands, Commands
<1>4. CASE Exit(UncaughtException) /\ UNCHANGED stdout
  BY <1>2, <1>4, ExitInv DEF Handling
<1>5. ASSUME NextFileIs(f),
             NEW a \in Ast, Answer(a), a.file = f,
             typeTable' \in SUBSET (File \X Project),
             pendingFileIndex' = pendingFileIndex + 1,
             pendingResponse' = NoResponse,
             callbacks' = callbacks + 1,
             UNCHANGED <<node, exitCode, project, program, pendingFiles, reloaded>>
      PROVE  ParserInv'
  <2>1. callbacks < MaxCallbacks
    BY DEF HandleParse
  <2>2. callbacks' \in 0..MaxCallbacks
    BY <1>1, <1>5, <2>1, Constants DEF NodeTypeOK
  <2>3. NodeTypeOK'
    BY <1>1, <1>5, <2>2 DEF NodeTypeOK, StateTypeOK
  <2>4. a \in Response /\ AnswerTo(request, a)
    BY <1>3, <1>5 DEF Response, AnswerTo
  <2> QED
    BY <1>2, <1>5, <2>3, <2>4, NothingReadAhead, AnswerInv
<1>6. CASE /\ NextFileIs(f)
           /\ \/ /\ pendingResponse # NoResponse
                 /\ Answer(pendingResponse)
                 /\ UNCHANGED typeTable
              \/ /\ pendingResponse = NoResponse /\ CanExtract(f, program)
                 /\ Answer(AstOf(f, program))
                 /\ RecordTypes(f, program)
           /\ pendingFileIndex' = pendingFileIndex + 1
           /\ pendingResponse' = NoResponse
           /\ callbacks' = callbacks + 1
           /\ UNCHANGED <<node, exitCode, project, program, pendingFiles, reloaded>>
  <2>1. CASE pendingResponse # NoResponse /\ Answer(pendingResponse) /\ UNCHANGED typeTable
    <3>1. pendingResponse \in Ast /\ NextFileIs(pendingResponse.file)
      BY <1>1, <2>1 DEF TypeOK, ReadAheadIsNext
    <3>2. pendingResponse.file = f
      BY <1>6, <3>1, NextFileUnique
    <3>3. typeTable' \in SUBSET (File \X Project)
      BY <1>1, <2>1 DEF TypeOK
    <3> QED
      BY <1>5, <1>6, <2>1, <3>1, <3>2, <3>3
  <2>2. CASE Answer(AstOf(f, program)) /\ RecordTypes(f, program)
    <3>1. AstOf(f, program) \in Ast /\ AstOf(f, program).file = f
      BY <1>1, <1>3, AstOfType
    <3>2. typeTable' \in SUBSET (File \X Project)
      BY <1>1, <1>3, <2>2, RecordTypesType
    <3> QED
      BY <1>5, <1>6, <2>2, <3>1, <3>2
  <2> QED
    BY <1>6, <2>1, <2>2
<1> QED
  BY <1>4, <1>6 DEF HandleParse

LEMMA HandlePrepareFilesInv ==
  ASSUME ParserInv, HandlePrepareFiles
  PROVE  ParserInv'
<1>1. NodeTypeOK
  BY TypeOKParts DEF ParserInv
<1>2. Handling("prepare-files") /\ node' = "running"
  BY DEF HandlePrepareFiles, Handling
<1>3. Head(stdin).files \in Seq(File) /\ request.command = "prepare-files"
  BY <1>2, HandlingTurn, Constants DEF Request, ProjectCommands, Commands
<1>4. callbacks' \in 0..MaxCallbacks
  BY <1>1, Constants DEF HandlePrepareFiles, NodeTypeOK
<1>5. NodeTypeOK'
  BY <1>1, <1>3, <1>4 DEF HandlePrepareFiles, NodeTypeOK, StateTypeOK
<1>6. AnswerTo(request, [type |-> "ok"])
  BY <1>3 DEF AnswerTo
<1> QED
  BY <1>2, <1>5, <1>6, SimpleAnswers, NothingReadAhead, AnswerInv DEF HandlePrepareFiles

\* Handlers that leave the announced files alone and answer no parse request.
LEMMA OtherHandlerInv ==
  ASSUME ParserInv, NEW command, command # "parse", Handling(command),
         NEW a \in Response, Answer(a), UNCHANGED <<node, batchVars>>, NodeTypeOK'
  PROVE  ParserInv'
<1>1. node' = "running" /\ ReadAheadIsNext'
  BY SameReadAhead DEF Handling, ParserInv
<1>2. AnswerTo(request, a)
  BY HandlingTurn DEF AnswerTo
<1> QED
  BY <1>1, <1>2, AnswerInv

LEMMA FilesOfProject ==
  ASSUME TypeOK, NEW p \in Project
  PROVE  Included(p) \in SUBSET File /\ Load(p) \in SUBSET File
BY Constants DEF Included, Load

LEMMA HandleGetOwnFilesInv ==
  ASSUME ParserInv, HandleGetOwnFiles
  PROVE  ParserInv'
<1> DEFINE p == Head(stdin).tsConfig
           a == [type |-> "file-list", ownFiles |-> Included(p)]
<1>1. Handling("get-own-files") /\ Answer(a) /\ UNCHANGED nodeVars
  BY DEF HandleGetOwnFiles
<1>2. p \in Project
  BY <1>1, HandlingTurn DEF Request, ProjectCommands, Commands
<1>3. a \in Response
  BY <1>2, FilesOfProject DEF Response, ParserInv
<1>4. NodeTypeOK'
  BY <1>1, SameNode, TypeOKParts DEF ParserInv
<1> QED
  BY <1>1, <1>3, <1>4, OtherHandlerInv DEF nodeVars, stateVars

LEMMA HandleOpenProjectInv ==
  ASSUME ParserInv, HandleOpenProject
  PROVE  ParserInv'
<1> DEFINE p == Head(stdin).tsConfig
           a == [type |-> "project-opened", ownFiles |-> Included(p), allFiles |-> Load(p)]
<1>1. Handling("open-project") /\ Answer(a)
  BY DEF HandleOpenProject
<1>2. p \in Project
  BY <1>1, HandlingTurn DEF Request, ProjectCommands, Commands
<1>3. Included(p) \in SUBSET File /\ Load(p) \in SUBSET File
  BY <1>2, FilesOfProject DEF ParserInv
<1>4. a \in Response
  BY <1>3 DEF Response
<1>5. NodeTypeOK
  BY TypeOKParts DEF ParserInv
<1>6. NodeTypeOK'
  BY <1>2, <1>3, <1>5 DEF HandleOpenProject, NodeTypeOK, StateTypeOK, batchVars
<1> QED
  BY <1>1, <1>4, <1>6, OtherHandlerInv DEF HandleOpenProject

LEMMA HandleCloseProjectInv ==
  ASSUME ParserInv, HandleCloseProject
  PROVE  ParserInv'
<1>1. Handling("close-project") /\ NodeTypeOK
  BY TypeOKParts DEF HandleCloseProject, ParserInv
<1>2. NodeTypeOK'
  BY <1>1 DEF HandleCloseProject, NodeTypeOK, StateTypeOK, batchVars
<1> QED
  BY <1>1, <1>2, SimpleAnswers, OtherHandlerInv DEF HandleCloseProject

LEMMA HandleGetTypeTableInv ==
  ASSUME ParserInv, HandleGetTypeTable
  PROVE  ParserInv'
<1> DEFINE a == [type |-> "type-table", types |-> typeTable]
<1>1. Handling("get-type-table") /\ Answer(a) /\ UNCHANGED nodeVars
  BY DEF HandleGetTypeTable
<1>2. a \in Response
  BY DEF ParserInv, TypeOK, Response
<1>3. NodeTypeOK'
  BY <1>1, SameNode, TypeOKParts DEF ParserInv
<1> QED
  BY <1>1, <1>2, <1>3, OtherHandlerInv DEF nodeVars, stateVars

LEMMA HandleGetMetadataInv ==
  ASSUME ParserInv, HandleGetMetadata
  PROVE  ParserInv'
<1>1. Handling("get-metadata") /\ UNCHANGED nodeVars
  BY DEF HandleGetMetadata
<1>2. NodeTypeOK'
  BY <1>1, SameNode, TypeOKParts DEF ParserInv
<1> QED
  BY <1>1, <1>2, SimpleAnswers, OtherHandlerInv DEF HandleGetMetadata, nodeVars, stateVars

LEMMA HandleResetInv ==
  ASSUME ParserInv, HandleReset
  PROVE  ParserInv'
<1>1. Handling("reset") /\ NodeTypeOK /\ FreshState /\ node' = "running"
  BY TypeOKParts DEF HandleReset, Handling, ParserInv
<1>2. NodeTypeOK' /\ ReadAheadIsNext'
  BY <1>1, FreshStateOK, NothingReadAhead DEF HandleReset, NodeTypeOK
<1>3. AnswerTo(request, [type |-> "reset-done"])
  BY DEF AnswerTo
<1> QED
  BY <1>1, <1>2, <1>3, SimpleAnswers, AnswerInv DEF HandleReset

\* The process works on its own: the pipes and the client are left alone.
LEMMA BackgroundInv ==
  ASSUME ParserInv, NodeTypeOK', ReadAheadIsNext',
         UNCHANGED <<clientVars, pipes, node>>, exists' \in SUBSET File
  PROVE  ParserInv'
<1>1. ClientTypeOK /\ PipesTypeOK /\ AnswerIsForRequestedFile /\ Lockstep
  BY TypeOKParts DEF ParserInv
<1>2. ClientTypeOK' /\ AnswerIsForRequestedFile'
  BY <1>1, SameClient
<1>3. TypeOK'
  BY <1>1, <1>2, SamePipes, TypeOKPartsPrimed
<1>4. Lockstep'
  <2>1. AnswerTo(request, Head(stdout)) <=> AnswerTo(request', Head(stdout'))
    BY DEF clientVars, pipes
  <2> QED
    BY <1>1, <2>1 DEF Lockstep, PipesInStep, clientVars, pipes
<1> QED
  BY <1>2, <1>3, <1>4 DEF ParserInv

LEMMA PrepareNextFileInv ==
  ASSUME ParserInv, PrepareNextFile
  PROVE  ParserInv'
<1>1. TypeOK /\ NodeTypeOK /\ ReadAheadIsNext /\ exists \in SUBSET File
  BY TypeOKParts DEF ParserInv
<1>2. callbacks \in 0..MaxCallbacks /\ callbacks > 0 /\ node = "running"
      /\ UNCHANGED <<clientVars, stdout, exists>>
  BY <1>1 DEF PrepareNextFile, NodeTypeOK
<1>3. callbacks - 1 \in 0..MaxCallbacks
  BY <1>2, Constants
<1>4. CASE /\ callbacks' = callbacks - 1
           /\ UNCHANGED <<node, exitCode, stateVars, reloaded, stdin>>
  <2>1. NodeTypeOK'
    BY <1>1, <1>3, <1>4 DEF NodeTypeOK, StateTypeOK, stateVars, batchVars
  <2>2. ReadAheadIsNext'
    BY <1>1, <1>4, SameReadAhead DEF stateVars
  <2> QED
    BY <1>1, <1>2, <1>4, <2>1, <2>2, BackgroundInv DEF pipes
<1>5. ASSUME pendingFileIndex < Len(pendingFiles),
             NEW heap, NEW reload \in BOOLEAN, NEW prog \in SUBSET File,
             NEW f, f = pendingFiles[pendingFileIndex + 1],
             program' = prog,
             pendingResponse' = AstOf(f, prog),
             RecordTypes(f, prog),
             reloaded' = (reload \/ (reloaded /\ heap # "below")),
             callbacks' = callbacks - 1,
             UNCHANGED <<node, exitCode, project, pendingFiles, pendingFileIndex, stdin>>
      PROVE  ParserInv'
  <2>1. f \in File
    BY <1>1, <1>5 DEF TypeOK
  <2>2. AstOf(f, prog) \in Ast /\ AstOf(f, prog).file = f
    BY <1>1, <2>1, AstOfType
  <2>3. typeTable' \in SUBSET (File \X Project)
    BY <1>1, <1>5, <2>1, RecordTypesType
  <2>4. reloaded' \in BOOLEAN
    BY <1>1, <1>5 DEF NodeTypeOK
  <2>5. NodeTypeOK'
    BY <1>1, <1>3, <1>5, <2>2, <2>3, <2>4 DEF NodeTypeOK, StateTypeOK
  <2>6. ReadAheadIsNext'
    BY <1>5, <2>2 DEF ReadAheadIsNext, NextFileIs
  <2> QED
    BY <1>1, <1>2, <1>5, <2>5, <2>6, BackgroundInv DEF pipes
<1>6. CASE /\ pendingFileIndex < Len(pendingFiles)
           /\ \E heap \in {"below", "at", "above"} :
                LET f == pendingFiles[pendingFileIndex + 1]
                    reload == ~reloaded /\ heap = "above" /\ project # NoProject
                    prog == IF reload THEN Load(project) ELSE program IN
                \/ /\ CanExtract(f, prog)
                   /\ program' = prog
                   /\ pendingResponse' = AstOf(f, prog)
                   /\ RecordTypes(f, prog)
                   /\ reloaded' = (reload \/ (reloaded /\ heap # "below"))
                   /\ callbacks' = callbacks - 1
                   /\ UNCHANGED <<node, exitCode, project, pendingFiles,
                                  pendingFileIndex, stdin>>
                \/ /\ ~CanExtract(f, prog)
                   /\ Exit(UncaughtException)
  <2> DEFINE f == pendingFiles[pendingFileIndex + 1]
             reload(heap) == ~reloaded /\ heap = "above" /\ project # NoProject
             prog(heap) == IF reload(heap) THEN Load(project) ELSE program
  <2>1. CASE Exit(UncaughtException)
    BY <1>2, <2>1, ExitInv
  <2>2. ASSUME NEW heap,
               program' = prog(heap),
               pendingResponse' = AstOf(f, prog(heap)),
               RecordTypes(f, prog(heap)),
               reloaded' = (reload(heap) \/ (reloaded /\ heap # "below")),
               callbacks' = callbacks - 1,
               UNCHANGED <<node, exitCode, project, pendingFiles, pendingFileIndex, stdin>>
        PROVE  ParserInv'
    <3>1. prog(heap) \in SUBSET File
      BY <1>1, FilesOfProject DEF TypeOK
    <3>2. reload(heap) \in BOOLEAN
      OBVIOUS
    <3> HIDE DEF f, reload, prog
    <3>3. f = pendingFiles[pendingFileIndex + 1]
      BY DEF f
    <3> QED
      BY <1>5, <1>6, <2>2, <3>1, <3>2, <3>3
  <2> QED
    BY <1>6, <2>1, <2>2
<1> QED
  BY <1>4, <1>6 DEF PrepareNextFile

LEMMA CrashInv ==
  ASSUME ParserInv, Crash
  PROVE  ParserInv'
<1>1. PICK code \in CrashCodes : Exit(code)
  BY DEF Crash
<1>2. code \in OutOfMemoryCodes \cup {UncaughtException}
  BY Constants DEF OutOfMemoryCodes, UncaughtException
<1> QED
  BY <1>1, <1>2, ExitInv DEF Crash

LEMMA DeleteFileInv ==
  ASSUME ParserInv, NEW f \in File, DeleteFile(f)
  PROVE  ParserInv'
<1>1. NodeTypeOK' /\ ReadAheadIsNext'
  BY TypeOKParts, SameNode, SameReadAhead DEF ParserInv, DeleteFile, nodeVars, stateVars
<1>2. exists' \in SUBSET File
  BY DEF ParserInv, TypeOK, DeleteFile
<1> QED
  BY <1>1, <1>2, BackgroundInv DEF DeleteFile, nodeVars

-----------------------------------------------------------------------------
\* Every step of client, process or file system preserves the invariant.
THEOREM StepInv == ParserInv /\ [Next]_parserVars => ParserInv'
<1> SUFFICES ASSUME ParserInv, [Next]_parserVars PROVE ParserInv'
  OBVIOUS
<1>1. CASE \E c \in Call : Invoke(c)
  BY <1>1, InvokeInv
<1>2. CASE KillProcess
  BY <1>2, KillProcessInv
<1>3. CASE ClientStep
  BY <1>3, ResetNothingInv, StartProcessInv, StartFailsInv, CheckAliveInv,
     WriteRequestInv, ReadResponseInv, ReadEndOfStreamInv DEF ClientStep
<1>4. CASE HandleLine
  BY <1>4, HandleParseInv, HandlePrepareFilesInv, HandleGetOwnFilesInv,
     HandleOpenProjectInv, HandleCloseProjectInv, HandleGetTypeTableInv,
     HandleGetMetadataInv, HandleResetInv DEF HandleLine
<1>5. CASE PrepareNextFile
  BY <1>5, PrepareNextFileInv
<1>6. CASE Crash
  BY <1>6, CrashInv
<1>7. CASE \E f \in File : DeleteFile(f)
  BY <1>7, DeleteFileInv
<1>8. CASE UNCHANGED parserVars
  <2>1. NodeTypeOK' /\ ReadAheadIsNext'
    BY <1>8, TypeOKParts, SameNode, SameReadAhead DEF ParserInv, parserVars, nodeVars, stateVars
  <2>2. exists' \in SUBSET File
    BY <1>8 DEF ParserInv, TypeOK, parserVars
  <2> QED
    BY <1>8, <2>1, <2>2, BackgroundInv DEF parserVars, nodeVars
<1> QED
  BY <1>1, <1>2, <1>3, <1>4, <1>5, <1>6, <1>7, <1>8 DEF Next, Internal

\* Whatever the caller does, and whenever the process dies or files vanish:
\* every variable keeps its type, client and process take turns, and the AST
\* parsed ahead is the one that is asked for next.
THEOREM Invariant == Spec => []ParserInv
<1> QED
  BY InitInv, StepInv, PTL DEF Spec

\* Every variable of the client, the pipes and the process keeps its type.
THEOREM TypeCorrect == Spec => []TypeOK
<1>1. ParserInv => TypeOK
  BY DEF ParserInv
<1> QED
  BY <1>1, Invariant, PTL

\* No answer is left in a pipe for a later request, also after a failed call,
\* and while a call waits exactly one of request, answer or death is there
\* (talkToParserWrapper, runReadLineInterface).
THEOREM TakesTurns == Spec => [](Lockstep /\ PipesInStep)
<1>1. ParserInv => Lockstep /\ PipesInStep
  BY DEF ParserInv, Lockstep
<1> QED
  BY <1>1, Invariant, PTL

\* What has been parsed ahead is what is asked for next (prepareNextFile).
THEOREM ReadsAheadCorrectly == Spec => []ReadAheadIsNext
<1>1. ParserInv => ReadAheadIsNext
  BY DEF ParserInv
<1> QED
  BY <1>1, Invariant, PTL

\* A parse call that returns normally returns the AST of the file it named
\* (TypeScriptParser.parse, handleParseCommand).
THEOREM AnswersCorrectly == Spec => []AnswerIsForRequestedFile
<1>1. ParserInv => AnswerIsForRequestedFile
  BY DEF ParserInv
<1> QED
  BY <1>1, Invariant, PTL

-----------------------------------------------------------------------------
(* The effects of calls: EffectInv is inductive together with ParserInv.   *)

\* A process that is gone has a fresh state, and nothing is said of it.
LEMMA GoneEffect ==
  ASSUME FreshState, node' # "running", ~Answering', MetadataIsFirst',
         ~Succeeded("parse")'
  PROVE  EffectInv'
BY DEF FreshState, EffectInv, StateIsLost, AnswersMatch, AnswerMeansEffect,
       SuccessMeansEffect, TypesOfAstsAreInTable, TypesOfAnswerAreInTable, MetadataBeforeAst

LEMMA SameLoss ==
  ASSUME StateIsLost, UNCHANGED <<node, stateVars>>
  PROVE  StateIsLost'
BY DEF StateIsLost, stateVars, batchVars

LEMMA SameReadAheadTypes ==
  ASSUME pendingResponse # NoResponse => TypesAreRecorded(pendingResponse),
         UNCHANGED <<pendingResponse, typeTable>>
  PROVE  pendingResponse' # NoResponse => TypesAreRecorded(pendingResponse)'
BY DEF TypesAreRecorded

\* A step of the client that goes on with the call.
LEMMA TalkEffect ==
  ASSUME EffectInv, UNCHANGED nodeVars, pc' # "idle", ~Answering', MetadataIsFirst'
  PROVE  EffectInv'
<1>1. StateIsLost'
  BY SameLoss DEF EffectInv, nodeVars
<1>2. pendingResponse' # NoResponse => TypesAreRecorded(pendingResponse)'
  BY SameReadAheadTypes DEF EffectInv, TypesOfAstsAreInTable, nodeVars, stateVars, batchVars
<1> QED
  BY <1>1, <1>2 DEF EffectInv, AnswersMatch, AnswerMeansEffect, SuccessMeansEffect, Idle,
     TypesOfAstsAreInTable, TypesOfAnswerAreInTable, MetadataBeforeAst, Succeeded

\* A step that ends the call without an answer, and leaves the process alone.
LEMMA FailEffect ==
  ASSUME EffectInv, UNCHANGED <<nodeVars, handle, metadata>>, pc' = "idle",
         stdout' = <<>>, result' = NoResult \/ result'.outcome # "ok",
         ~handle \/ metadata \/ node = "exited"
  PROVE  EffectInv'
<1>1. StateIsLost'
  BY SameLoss DEF EffectInv, nodeVars
<1>2. pendingResponse' # NoResponse => TypesAreRecorded(pendingResponse)'
  BY SameReadAheadTypes DEF EffectInv, TypesOfAstsAreInTable, nodeVars, stateVars, batchVars
<1>3. MetadataIsFirst'
  BY DEF MetadataIsFirst, nodeVars
<1>4. ~Answering' /\ ~Succeeded("parse")'
  BY DEF Answering, Succeeded
<1> QED
  BY <1>1, <1>2, <1>3, <1>4 DEF EffectInv, AnswersMatch, AnswerMeansEffect,
     SuccessMeansEffect, TypesOfAstsAreInTable, TypesOfAnswerAreInTable, MetadataBeforeAst

LEMMA ThrowEffect ==
  ASSUME EffectInv, NEW error \in Errors, Throw(error, <<>>), UNCHANGED metadata,
         ~handle \/ metadata \/ node = "exited"
  PROVE  EffectInv'
<1>1. CASE Destroy /\ Return("ok", NoResponse) /\ call.command = "reset"
  <2>1. FreshState /\ node' # "running" /\ ~Answering' /\ MetadataIsFirst'
    BY <1>1 DEF Destroy, FreshProcess, Return, Answering, MetadataIsFirst
  <2>2. ~Succeeded("parse")'
    BY <1>1 DEF Return, Succeeded
  <2> QED
    BY <2>1, <2>2, GoneEffect
<1>2. CASE Return(error, NoResponse) /\ stdout' = <<>> /\ UNCHANGED <<handle, nodeVars>>
  <2>1. pc' = "idle" /\ result'.outcome # "ok"
    BY <1>2 DEF Return, Errors
  <2> QED
    BY <1>2, <2>1, FailEffect
<1> QED
  BY <1>1, <1>2 DEF Throw

\* The process dies.
LEMMA ExitEffect ==
  ASSUME EffectInv, NEW code, Exit(code), UNCHANGED <<clientVars, stdout>>
  PROVE  EffectInv'
<1>1. FreshState /\ node' = "exited"
  BY DEF Exit
<1>2. StateIsLost' /\ pendingResponse' = NoResponse
  BY <1>1 DEF FreshState, StateIsLost
<1>3. AnswersMatch' /\ MetadataBeforeAst' /\ MetadataIsFirst'
  BY <1>1 DEF EffectInv, AnswersMatch, Answering, MetadataBeforeAst, MetadataIsFirst,
     Succeeded, Idle, clientVars
<1>4. Succeeded("parse")' => result'.response.type = "ast"
  BY DEF EffectInv, TypesOfAstsAreInTable, Succeeded, Idle, clientVars
<1> QED
  BY <1>1, <1>2, <1>3, <1>4 DEF EffectInv, AnswerMeansEffect, SuccessMeansEffect,
     TypesOfAstsAreInTable, TypesOfAnswerAreInTable

\* The process answers: what each handler has to establish.
LEMMA AnswerEffect ==
  ASSUME ParserInv, EffectInv, NEW command, Handling(command), NEW a, Answer(a),
         node' = "running",
         a.type = ExpectedType[command] \/ (command = "close-project" /\ a.type = "error"),
         a.type = ExpectedType[command] => HasTakenEffect(request)',
         a.type = "ast" => TypesAreRecorded(a)',
         pendingResponse' # NoResponse => TypesAreRecorded(pendingResponse)'
  PROVE  EffectInv'
<1>1. pc = "read" /\ request.command = command /\ stdout = <<>>
  BY HandlingTurn
<1>2. UNCHANGED clientVars /\ Head(stdout') = a /\ stdout' # <<>>
  BY <1>1 DEF Handling, Answer
<1>3. AnswersMatch' /\ MetadataIsFirst'
  BY <1>1, <1>2 DEF EffectInv, AnswersMatch, MetadataIsFirst, Handling, clientVars
<1>4. AnswerMeansEffect'
  <2>1. SUFFICES ASSUME request' = call', a.type = ExpectedType[call'.command]
                 PROVE  HasTakenEffect(call)'
    BY <1>2 DEF AnswerMeansEffect
  <2> QED
    BY <1>1, <1>2, <2>1 DEF HasTakenEffect, clientVars
<1>5. TypesOfAstsAreInTable'
  <2>1. ~Succeeded("parse")'
    BY <1>1, <1>2 DEF Succeeded, Idle, clientVars
  <2>2. a.type = "ast" => TypesAreRecorded(Head(stdout))'
    BY <1>2 DEF TypesAreRecorded
  <2> QED
    BY <1>2, <2>1, <2>2 DEF TypesOfAstsAreInTable
<1> QED
  BY <1>1, <1>2, <1>3, <1>4, <1>5 DEF EffectInv, StateIsLost, SuccessMeansEffect, Idle,
     Succeeded, TypesOfAnswerAreInTable, MetadataBeforeAst, clientVars

\* The process works on its own.
LEMMA BackgroundEffect ==
  ASSUME EffectInv, UNCHANGED <<clientVars, pipes, node, project, pendingFiles, pendingFileIndex>>,
         StateIsLost', typeTable \subseteq typeTable',
         project = NoProject => UNCHANGED typeTable,
         pendingFiles = <<>> => UNCHANGED pendingResponse,
         pendingResponse' # NoResponse => TypesAreRecorded(pendingResponse)'
  PROVE  EffectInv'
<1>1. AnswersMatch' /\ MetadataIsFirst' /\ MetadataBeforeAst'
  BY DEF EffectInv, AnswersMatch, Answering, MetadataIsFirst, MetadataBeforeAst,
     Succeeded, Idle, clientVars, pipes
<1>2. AnswerMeansEffect'
  <2>1. SUFFICES ASSUME node = "running", Answering, request = call,
                        Head(stdout).type = ExpectedType[call.command]
                 PROVE  HasTakenEffect(call)'
    BY DEF AnswerMeansEffect, Answering, clientVars, pipes
  <2>2. HasTakenEffect(call)
    BY <2>1 DEF EffectInv, AnswerMeansEffect
  <2>3. call' = call
    BY DEF clientVars
  <2> QED
    BY <2>2, <2>3 DEF HasTakenEffect
<1>3. SuccessMeansEffect'
  <2>1. SUFFICES ASSUME node = "running", Idle, result # NoResult, result.outcome = "ok"
                 PROVE  HasTakenEffect(result.call)'
    BY DEF SuccessMeansEffect, Idle, clientVars
  <2>2. HasTakenEffect(result.call)
    BY <2>1 DEF EffectInv, SuccessMeansEffect
  <2>3. result' = result
    BY DEF clientVars
  <2> QED
    BY <2>2, <2>3 DEF HasTakenEffect
<1>4. TypesOfAstsAreInTable'
  BY DEF EffectInv, TypesOfAstsAreInTable, TypesAreRecorded, Answering, Succeeded, Idle,
     clientVars, pipes
<1>5. TypesOfAnswerAreInTable'
  BY DEF EffectInv, TypesOfAnswerAreInTable, Succeeded, Idle, clientVars
<1> QED
  BY <1>1, <1>2, <1>3, <1>4, <1>5 DEF EffectInv

LEMMA InvokeEffect ==
  ASSUME ParserInv, EffectInv, NEW c \in Call, Invoke(c)
  PROVE  EffectInv'
<1>1. pc = "idle" /\ pc' \in {"start", "check"}
  BY DEF Invoke
<1>2. MetadataIsFirst'
  BY <1>1 DEF Invoke, EffectInv, MetadataIsFirst, nodeVars, pipes
<1>3. ~Answering'
  BY <1>1 DEF Answering
<1> QED
  BY <1>1, <1>2, <1>3, TalkEffect DEF Invoke

LEMMA ResetNothingEffect ==
  ASSUME ParserInv, EffectInv, ResetNothing
  PROVE  EffectInv'
<1>1. ~handle /\ node # "running"
  BY DEF ResetNothing, ParserInv, Lockstep
<1>2. StateIsLost' /\ node' # "running" /\ MetadataIsFirst' /\ ~Answering'
  BY <1>1, SameLoss DEF EffectInv, ResetNothing, nodeVars, MetadataIsFirst, Answering, Return
<1>3. ~Succeeded("parse")'
  BY DEF ResetNothing, Return, Succeeded
<1> QED
  BY <1>2, <1>3 DEF EffectInv, StateIsLost, AnswersMatch, AnswerMeansEffect,
     SuccessMeansEffect, TypesOfAstsAreInTable, TypesOfAnswerAreInTable, MetadataBeforeAst

LEMMA StartProcessEffect ==
  ASSUME ParserInv, EffectInv, StartProcess
  PROVE  EffectInv'
<1>1. pc' = "check" /\ request' = Metadata /\ node' = "running" /\ pendingResponse' = NoResponse
  BY DEF StartProcess, FreshProcess, FreshState
<1> QED
  BY <1>1 DEF EffectInv, StateIsLost, AnswersMatch, Answering, MetadataIsFirst, AnswerMeansEffect,
     SuccessMeansEffect, Idle, TypesOfAstsAreInTable, TypesOfAnswerAreInTable, Succeeded,
     MetadataBeforeAst

LEMMA StartFailsEffect ==
  ASSUME ParserInv, EffectInv, StartFails
  PROVE  EffectInv'
<1>1. ~handle /\ stdout = <<>>
  BY DEF StartFails, ParserInv, Lockstep, PipesInStep
<1> QED
  BY <1>1, Constants, ThrowEffect DEF StartFails

LEMMA CheckAliveEffect ==
  ASSUME ParserInv, EffectInv, CheckAlive
  PROVE  EffectInv'
<1>1. stdout = <<>> /\ pc = "check"
  BY DEF CheckAlive, ParserInv, Lockstep, PipesInStep
<1>2. CASE node = "running"
  <2>1. UNCHANGED nodeVars /\ pc' = "write" /\ ~Answering'
    BY <1>2 DEF CheckAlive, Answering
  <2>2. MetadataIsFirst'
    BY <1>1, <1>2 DEF CheckAlive, EffectInv, MetadataIsFirst, nodeVars
  <2> QED
    BY <2>1, <2>2, TalkEffect
<1>3. CASE node = "exited"
  BY <1>1, <1>3, ThrowEffect DEF CheckAlive, ErrorOfExit, Errors
<1> QED
  BY <1>2, <1>3 DEF CheckAlive

LEMMA WriteRequestEffect ==
  ASSUME ParserInv, EffectInv, WriteRequest
  PROVE  EffectInv'
<1>1. stdout = <<>> /\ pc = "write"
  BY DEF WriteRequest, ParserInv, Lockstep, PipesInStep
<1>2. CASE node = "running"
  <2>1. UNCHANGED nodeVars /\ pc' = "read" /\ ~Answering'
    BY <1>1, <1>2 DEF WriteRequest, Answering
  <2>2. MetadataIsFirst'
    BY <1>1, <1>2 DEF WriteRequest, EffectInv, MetadataIsFirst, nodeVars
  <2> QED
    BY <2>1, <2>2, TalkEffect
<1>3. CASE node = "exited"
  BY <1>1, <1>3, ThrowEffect DEF WriteRequest, Errors
<1> QED
  BY <1>2, <1>3 DEF WriteRequest

LEMMA ReadEndOfStreamEffect ==
  ASSUME ParserInv, EffectInv, ReadEndOfStream
  PROVE  EffectInv'
BY ThrowEffect DEF ReadEndOfStream, ErrorOfExit, Errors

\* The metadata request is no call.
LEMMA MetadataIsNoCall == Metadata \notin Call
BY DEF Metadata, Call

\* The one answer that a call does not expect is an error.
LEMMA UnexpectedAnswer ==
  ASSUME ParserInv, EffectInv, pc = "read", stdout # <<>>,
         Head(stdout).type # ExpectedType[request.command]
  PROVE  request = call /\ call.command = "close-project"
<1>1. request.command = "close-project"
  BY DEF EffectInv, AnswersMatch, Answering
<1> QED
  BY <1>1 DEF ParserInv, Lockstep, Metadata

LEMMA ReadResponseEffect ==
  ASSUME ParserInv, EffectInv, ReadResponse
  PROVE  EffectInv'
<1> DEFINE response == Head(stdout)
           expected == response.type = ExpectedType[request.command]
<1>1. /\ call \in Call /\ request \in {call, Metadata} /\ handle
      /\ Len(stdout) = 1 /\ AnswerTo(request, response)
      /\ stdout \in Seq(Response)
  BY TypeOKParts DEF ReadResponse, ParserInv, Lockstep, PipesTypeOK
<1>2. Tail(stdout) = <<>> /\ Answering
  BY <1>1, OneLine DEF ReadResponse, Answering
<1>3. CASE ~expected /\ Throw("CatastrophicError", Tail(stdout)) /\ UNCHANGED metadata
  <2>1. request # Metadata
    BY <1>1, <1>3, UnexpectedAnswer, MetadataIsNoCall DEF ReadResponse
  <2>2. metadata \/ node = "exited"
    BY <1>1, <2>1 DEF EffectInv, MetadataIsFirst
  <2> QED
    BY <1>2, <1>3, <2>2, ThrowEffect DEF Errors
<1>4. CASE /\ metadata' = TRUE
           /\ pc' = "check"
           /\ stdout' = Tail(stdout)
           /\ UNCHANGED <<call, result, handle, stdin, nodeVars>>
  <2>1. MetadataIsFirst' /\ ~Answering'
    BY <1>4 DEF MetadataIsFirst, Answering
  <2> QED
    BY <1>4, <2>1, TalkEffect
<1>5. CASE /\ expected /\ request # Metadata
           /\ Return("ok", response)
           /\ stdout' = Tail(stdout)
           /\ UNCHANGED <<handle, metadata, stdin, nodeVars>>
  <2>1. request = call /\ pc' = "idle" /\ result'.call = call /\ result'.response = response
    BY <1>1, <1>5 DEF Return
  <2>2. metadata
    BY <1>1, <1>2, <1>5 DEF EffectInv, MetadataIsFirst, Answering
  <2>3. StateIsLost' /\ ~Answering'
    BY <1>5, <2>1, SameLoss DEF EffectInv, nodeVars, Answering
  <2>4. MetadataIsFirst'
    BY <1>5, <2>2 DEF MetadataIsFirst, nodeVars
  <2>5. SuccessMeansEffect'
    <3>1. SUFFICES ASSUME node = "running"
                   PROVE  HasTakenEffect(result.call)'
      BY <1>5 DEF SuccessMeansEffect, nodeVars
    <3>2. HasTakenEffect(call)
      BY <1>2, <1>5, <2>1, <3>1 DEF EffectInv, AnswerMeansEffect
    <3> QED
      BY <1>5, <2>1, <3>2 DEF HasTakenEffect, nodeVars, stateVars, batchVars
  <2>6. call.command = "parse" => response.type = "ast" /\ response.file = call.file
    BY <1>1, <1>5, <2>1 DEF ExpectedType, AnswerTo
  <2>7. TypesOfAstsAreInTable'
    <3>1. pendingResponse' # NoResponse => TypesAreRecorded(pendingResponse)'
      BY <1>5, SameReadAheadTypes
         DEF EffectInv, TypesOfAstsAreInTable, nodeVars, stateVars, batchVars
    <3> QED
      BY <2>1, <2>3, <2>6, <3>1 DEF TypesOfAstsAreInTable, Succeeded
  <2>8. TypesOfAnswerAreInTable'
    <3>1. SUFFICES ASSUME call.command = "parse", node = "running",
                          response.project # NoProject
                   PROVE  <<call.file, response.project>> \in typeTable
      BY <1>5, <2>1 DEF TypesOfAnswerAreInTable, Succeeded, nodeVars, stateVars
    <3>2. TypesAreRecorded(response)
      BY <1>2, <2>6, <3>1 DEF EffectInv, TypesOfAstsAreInTable
    <3> QED
      BY <2>6, <3>1, <3>2 DEF TypesAreRecorded
  <2> QED
    BY <1>5, <2>2, <2>3, <2>4, <2>5, <2>7, <2>8 DEF EffectInv, AnswersMatch,
       AnswerMeansEffect, MetadataBeforeAst
<1> QED
  BY <1>3, <1>4, <1>5 DEF ReadResponse

LEMMA KillProcessEffect ==
  ASSUME KillProcess
  PROVE  EffectInv'
<1>1. FreshState /\ node' # "running" /\ ~Answering' /\ MetadataIsFirst' /\ ~Succeeded("parse")'
  BY DEF KillProcess, Destroy, FreshProcess, Answering, MetadataIsFirst, Succeeded
<1> QED
  BY <1>1, GoneEffect

\* Augmenting an AST with types records them.
LEMMA RecordsTypes ==
  ASSUME NEW f, NEW prog, NEW ast, ast = AstOf(f, prog), RecordTypes(f, prog)
  PROVE  /\ TypesAreRecorded(ast)'
         /\ typeTable \subseteq typeTable'
         /\ project = NoProject => UNCHANGED typeTable
BY DEF TypesAreRecorded, AstOf, RecordTypes, InProgram

LEMMA HandleParseEffect ==
  ASSUME ParserInv, EffectInv, HandleParse
  PROVE  EffectInv'
<1> DEFINE f == Head(stdin).file
<1>1. Handling("parse") /\ request.command = "parse" /\ node = "running"
      /\ UNCHANGED clientVars
  BY HandlingTurn DEF HandleParse, Handling
<1>2. CASE Exit(UncaughtException) /\ UNCHANGED stdout
  BY <1>1, <1>2, ExitEffect
<1>3. CASE /\ \/ /\ pendingResponse # NoResponse
                 /\ Answer(pendingResponse)
                 /\ UNCHANGED typeTable
              \/ /\ pendingResponse = NoResponse /\ CanExtract(f, program)
                 /\ Answer(AstOf(f, program))
                 /\ RecordTypes(f, program)
           /\ pendingResponse' = NoResponse
           /\ UNCHANGED node
  <2>1. HasTakenEffect(request)'
    BY <1>1 DEF HasTakenEffect, clientVars
  <2>2. PICK ast : Answer(ast) /\ ast.type = "ast" /\ TypesAreRecorded(ast)'
    <3>1. CASE pendingResponse # NoResponse /\ Answer(pendingResponse) /\ UNCHANGED typeTable
      <4>1. PICK ast : ast = pendingResponse
        OBVIOUS
      <4>2. ast.type = "ast"
        BY <3>1, <4>1 DEF ParserInv, TypeOK, Ast
      <4>3. TypesAreRecorded(ast)'
        BY <3>1, <4>1 DEF EffectInv, TypesOfAstsAreInTable, TypesAreRecorded
      <4> QED
        BY <3>1, <4>1, <4>2, <4>3
    <3>2. CASE Answer(AstOf(f, program)) /\ RecordTypes(f, program)
      <4>1. PICK ast : ast = AstOf(f, program)
        OBVIOUS
      <4>2. ast.type = "ast"
        BY <4>1 DEF AstOf
      <4> QED
        BY <3>2, <4>1, <4>2, RecordsTypes
    <3> QED
      BY <1>3, <3>1, <3>2
  <2>3. ExpectedType["parse"] = "ast"
    BY DEF ExpectedType
  <2> QED
    BY <1>1, <1>3, <2>1, <2>2, <2>3, AnswerEffect DEF HasTakenEffect, TypesAreRecorded
<1> QED
  BY <1>2, <1>3 DEF HandleParse

LEMMA HandlePrepareFilesEffect ==
  ASSUME ParserInv, EffectInv, HandlePrepareFiles
  PROVE  EffectInv'
<1>1. Handling("prepare-files") /\ request.command = "prepare-files" /\ request = Head(stdin)
      /\ node' = "running" /\ request' = request
  BY HandlingTurn DEF HandlePrepareFiles, Handling, clientVars
<1>2. HasTakenEffect(request)' /\ pendingResponse' = NoResponse
  BY <1>1 DEF HandlePrepareFiles, HasTakenEffect
<1>3. PICK a : a = [type |-> "ok"]
  OBVIOUS
<1>4. Answer(a) /\ a.type = ExpectedType["prepare-files"] /\ a.type # "ast"
  BY <1>3 DEF HandlePrepareFiles, ExpectedType, ProjectCommands, Commands
<1> QED
  BY <1>1, <1>2, <1>4, AnswerEffect DEF HasTakenEffect, TypesAreRecorded

\* Requests that change no state, and those that leave the read-ahead alone.
LEMMA OtherHandlerEffect ==
  ASSUME ParserInv, EffectInv, NEW command, Handling(command), NEW a, Answer(a),
         a.type = ExpectedType[command] \/ (command = "close-project" /\ a.type = "error"),
         a.type = ExpectedType[command] => HasTakenEffect(request)',
         a.type # "ast",
         UNCHANGED <<node, pendingResponse, typeTable>>
  PROVE  EffectInv'
<1>1. node' = "running"
  BY DEF Handling
<1>2. pendingResponse' # NoResponse => TypesAreRecorded(pendingResponse)'
  BY SameReadAheadTypes DEF EffectInv, TypesOfAstsAreInTable
<1> QED
  BY <1>1, <1>2, AnswerEffect DEF HasTakenEffect, TypesAreRecorded

LEMMA HandleGetOwnFilesEffect ==
  ASSUME ParserInv, EffectInv, HandleGetOwnFiles
  PROVE  EffectInv'
<1>1. Handling("get-own-files") /\ request'.command = "get-own-files"
      /\ UNCHANGED <<node, pendingResponse, typeTable>>
  BY HandlingTurn DEF HandleGetOwnFiles, Handling, clientVars, nodeVars, stateVars, batchVars
<1>2. PICK a : a = [type |-> "file-list", ownFiles |-> Included(Head(stdin).tsConfig)]
  OBVIOUS
<1>3. Answer(a) /\ a.type = ExpectedType["get-own-files"] /\ a.type # "ast"
  BY <1>2 DEF HandleGetOwnFiles, ExpectedType, ProjectCommands, Commands
<1>4. HasTakenEffect(request)'
  BY <1>1 DEF HasTakenEffect
<1> QED
  BY <1>1, <1>3, <1>4, OtherHandlerEffect DEF HasTakenEffect

LEMMA HandleGetTypeTableEffect ==
  ASSUME ParserInv, EffectInv, HandleGetTypeTable
  PROVE  EffectInv'
<1>1. Handling("get-type-table") /\ request'.command = "get-type-table"
      /\ UNCHANGED <<node, pendingResponse, typeTable>>
  BY HandlingTurn DEF HandleGetTypeTable, Handling, clientVars, nodeVars, stateVars, batchVars
<1>2. PICK a : a = [type |-> "type-table", types |-> typeTable]
  OBVIOUS
<1>3. Answer(a) /\ a.type = ExpectedType["get-type-table"] /\ a.type # "ast"
  BY <1>2 DEF HandleGetTypeTable, ExpectedType, ProjectCommands, Commands
<1>4. HasTakenEffect(request)'
  BY <1>1 DEF HasTakenEffect
<1> QED
  BY <1>1, <1>3, <1>4, OtherHandlerEffect DEF HasTakenEffect

LEMMA HandleGetMetadataEffect ==
  ASSUME ParserInv, EffectInv, HandleGetMetadata
  PROVE  EffectInv'
<1>1. Handling("get-metadata") /\ request'.command = "get-metadata"
      /\ UNCHANGED <<node, pendingResponse, typeTable>>
  BY HandlingTurn DEF HandleGetMetadata, Handling, clientVars, nodeVars, stateVars, batchVars
<1>2. PICK a : a = [type |-> "metadata"]
  OBVIOUS
<1>3. Answer(a) /\ a.type = ExpectedType["get-metadata"] /\ a.type # "ast"
  BY <1>2 DEF HandleGetMetadata, ExpectedType, ProjectCommands, Commands
<1>4. HasTakenEffect(request)'
  BY <1>1 DEF HasTakenEffect
<1> QED
  BY <1>1, <1>3, <1>4, OtherHandlerEffect DEF HasTakenEffect

LEMMA HandleOpenProjectEffect ==
  ASSUME ParserInv, EffectInv, HandleOpenProject
  PROVE  EffectInv'
<1>1. Handling("open-project") /\ request = Head(stdin) /\ request' = request
      /\ request.command = "open-project"
      /\ UNCHANGED <<node, pendingResponse, typeTable>>
  BY HandlingTurn DEF HandleOpenProject, Handling, clientVars, batchVars
<1>2. PICK a : a = [type |-> "project-opened", ownFiles |-> Included(Head(stdin).tsConfig),
                    allFiles |-> Load(Head(stdin).tsConfig)]
  OBVIOUS
<1>3. Answer(a) /\ a.type = ExpectedType["open-project"] /\ a.type # "ast"
  BY <1>2 DEF HandleOpenProject, ExpectedType, ProjectCommands, Commands
<1>4. HasTakenEffect(request)'
  BY <1>1 DEF HasTakenEffect, HandleOpenProject
<1> QED
  BY <1>1, <1>3, <1>4, OtherHandlerEffect DEF HasTakenEffect

LEMMA HandleCloseProjectEffect ==
  ASSUME ParserInv, EffectInv, HandleCloseProject
  PROVE  EffectInv'
<1>1. Handling("close-project") /\ request'.command = "close-project"
      /\ UNCHANGED <<node, pendingResponse, typeTable>>
  BY HandlingTurn DEF HandleCloseProject, Handling, clientVars, batchVars
<1>2. CASE Answer([type |-> "error"])
  <2>1. PICK a : a = [type |-> "error"]
    OBVIOUS
  <2>2. Answer(a) /\ a.type = "error" /\ a.type # "ast" /\ a.type # ExpectedType["close-project"]
    BY <1>2, <2>1 DEF ExpectedType, ProjectCommands, Commands
  <2> QED
    BY <1>1, <2>2, OtherHandlerEffect DEF HasTakenEffect
<1>3. CASE Answer([type |-> "project-closed"]) /\ project' = NoProject
  <2>1. PICK a : a = [type |-> "project-closed"]
    OBVIOUS
  <2>2. Answer(a) /\ a.type = ExpectedType["close-project"] /\ a.type # "ast"
    BY <1>3, <2>1 DEF ExpectedType, ProjectCommands, Commands
  <2>3. HasTakenEffect(request)'
    BY <1>1, <1>3 DEF HasTakenEffect
  <2> QED
    BY <1>1, <2>2, <2>3, OtherHandlerEffect DEF HasTakenEffect
<1> QED
  BY <1>2, <1>3 DEF HandleCloseProject

LEMMA HandleResetEffect ==
  ASSUME ParserInv, EffectInv, HandleReset
  PROVE  EffectInv'
<1>1. Handling("reset") /\ request'.command = "reset" /\ node' = "running"
  BY HandlingTurn DEF HandleReset, Handling, clientVars
<1>2. PICK a : a = [type |-> "reset-done"]
  OBVIOUS
<1>3. Answer(a) /\ a.type = ExpectedType["reset"] /\ a.type # "ast"
  BY <1>2 DEF HandleReset, ExpectedType, ProjectCommands, Commands
<1>4. HasTakenEffect(request)' /\ pendingResponse' = NoResponse
  BY <1>1 DEF HasTakenEffect, HandleReset, FreshState
<1> QED
  BY <1>1, <1>3, <1>4, AnswerEffect DEF HasTakenEffect, TypesAreRecorded

LEMMA PrepareNextFileEffect ==
  ASSUME ParserInv, EffectInv, PrepareNextFile
  PROVE  EffectInv'
<1>1. node = "running" /\ UNCHANGED <<clientVars, stdout, exists>>
  BY DEF PrepareNextFile
<1>2. CASE UNCHANGED <<node, exitCode, stateVars, reloaded, stdin>>
  <2>1. UNCHANGED <<project, pendingFiles, pendingFileIndex, pendingResponse, typeTable>>
    BY <1>2 DEF stateVars, batchVars
  <2>2. StateIsLost'
    BY <1>2, SameLoss DEF EffectInv
  <2>3. pendingResponse' # NoResponse => TypesAreRecorded(pendingResponse)'
    BY <2>1, SameReadAheadTypes DEF EffectInv, TypesOfAstsAreInTable
  <2> QED
    BY <1>1, <1>2, <2>1, <2>2, <2>3, BackgroundEffect DEF pipes
<1>3. ASSUME pendingFileIndex < Len(pendingFiles),
             NEW f, NEW prog, pendingResponse' = AstOf(f, prog), RecordTypes(f, prog),
             UNCHANGED <<node, exitCode, project, pendingFiles, pendingFileIndex, stdin>>
      PROVE  EffectInv'
  <2>1. PICK ast : ast = AstOf(f, prog)
    OBVIOUS
  <2>2. TypesAreRecorded(ast)' /\ typeTable \subseteq typeTable'
        /\ (project = NoProject => UNCHANGED typeTable)
    BY <1>3, <2>1, RecordsTypes
  <2>3. TypesAreRecorded(pendingResponse)'
    BY <1>3, <2>1, <2>2 DEF TypesAreRecorded
  <2>4. pendingFiles # <<>>
    BY <1>3 DEF ParserInv, TypeOK
  <2>5. StateIsLost'
    BY <1>1, <1>3 DEF StateIsLost
  <2> QED
    BY <1>1, <1>3, <2>2, <2>3, <2>4, <2>5, BackgroundEffect DEF pipes
<1> QED
  <2>1. CASE \E code \in {UncaughtException} : Exit(code)
    BY <1>1, <2>1, ExitEffect
  <2> QED
    BY <1>2, <1>3, <2>1 DEF PrepareNextFile

LEMMA CrashEffect ==
  ASSUME EffectInv, Crash
  PROVE  EffectInv'
BY ExitEffect DEF Crash

\* Neither a deleted file nor a step of another component matters.
LEMMA SameParserEffect ==
  ASSUME EffectInv, UNCHANGED <<clientVars, pipes, nodeVars>>
  PROVE  EffectInv'
<1>1. UNCHANGED <<node, project, pendingFiles, pendingFileIndex, pendingResponse, typeTable>>
  BY DEF nodeVars, stateVars, batchVars
<1>2. StateIsLost'
  BY SameLoss DEF EffectInv, nodeVars
<1>3. pendingResponse' # NoResponse => TypesAreRecorded(pendingResponse)'
  BY <1>1, SameReadAheadTypes DEF EffectInv, TypesOfAstsAreInTable
<1> QED
  BY <1>1, <1>2, <1>3, BackgroundEffect

LEMMA InitEffect == ParserInit => EffectInv
BY DEF ParserInit, EffectInv, StateIsLost, AnswersMatch, MetadataIsFirst, AnswerMeansEffect,
       SuccessMeansEffect, TypesOfAstsAreInTable, TypesOfAnswerAreInTable, MetadataBeforeAst,
       Answering, Succeeded

\* A step of the client or the process, whatever it is composed with.
LEMMA InternalEffect ==
  ASSUME ParserInv, EffectInv, Internal
  PROVE  EffectInv'
<1>1. CASE ClientStep
  BY <1>1, ResetNothingEffect, StartProcessEffect, StartFailsEffect, CheckAliveEffect,
     WriteRequestEffect, ReadResponseEffect, ReadEndOfStreamEffect DEF ClientStep
<1>2. CASE HandleLine
  BY <1>2, HandleParseEffect, HandlePrepareFilesEffect, HandleGetOwnFilesEffect,
     HandleOpenProjectEffect, HandleCloseProjectEffect, HandleGetTypeTableEffect,
     HandleGetMetadataEffect, HandleResetEffect DEF HandleLine
<1> QED
  BY <1>1, <1>2, PrepareNextFileEffect, CrashEffect DEF Internal

THEOREM StepEffect == ParserInv /\ EffectInv /\ [Next]_parserVars => EffectInv'
<1> SUFFICES ASSUME ParserInv, EffectInv, [Next]_parserVars PROVE EffectInv'
  OBVIOUS
<1>1. CASE \E c \in Call : Invoke(c)
  BY <1>1, InvokeEffect
<1>2. CASE KillProcess
  BY <1>2, KillProcessEffect
<1>3. CASE Internal
  BY <1>3, InternalEffect
<1>4. CASE (\E f \in File : DeleteFile(f)) \/ UNCHANGED parserVars
  BY <1>4, SameParserEffect DEF DeleteFile, parserVars
<1> QED
  BY <1>1, <1>2, <1>3, <1>4 DEF Next

\* The process is in the state that the last successful call asked for, until
\* the next call or its death, also while it parses ahead.
THEOREM EffectInvariant == Spec => [](ParserInv /\ EffectInv)
<1>1. Init => EffectInv
  BY InitEffect DEF Init
<1> QED
  BY <1>1, InitInv, StepInv, StepEffect, PTL DEF Spec

\* A project that was opened is open, one that was closed is closed, the list
\* that was announced is announced from its first file, and after a reset
\* nothing is remembered, unless the process has died (openProject,
\* closeProject, prepareFiles, reset).
THEOREM TakesEffect == Spec => []SuccessMeansEffect
<1>1. EffectInv => SuccessMeansEffect
  BY DEF EffectInv
<1> QED
  BY <1>1, EffectInvariant, PTL

\* The types of every AST handed out with types are in the table that is
\* asked for later (augmentAst, handleGetTypeTableCommand).
THEOREM TypesStayInTable == Spec => []TypesOfAnswerAreInTable
<1>1. EffectInv => TypesOfAnswerAreInTable
  BY DEF EffectInv
<1> QED
  BY <1>1, EffectInvariant, PTL

\* No AST is converted before the metadata of a process has been loaded
\* (setupParserWrapper, loadMetadata).
THEOREM MetadataComesFirst == Spec => []MetadataBeforeAst
<1>1. EffectInv => MetadataBeforeAst
  BY DEF EffectInv
<1> QED
  BY <1>1, EffectInvariant, PTL

\* A step that is not one of the process forgets types only with the process.
LEMMA ThrowKeepsTypes ==
  ASSUME NEW error, NEW unread, Throw(error, unread)
  PROVE  UNCHANGED typeTable \/ node' = "absent"
BY DEF Throw, Destroy, nodeVars, stateVars

LEMMA ClientKeepsTypes ==
  ASSUME ParserInv, EffectInv, ClientStep
  PROVE  UNCHANGED typeTable \/ node' = "absent"
<1>1. CASE StartProcess
  <2>1. node = "absent"
    BY <1>1 DEF StartProcess, ParserInv, Lockstep
  <2> QED
    BY <1>1, <2>1 DEF StartProcess, FreshProcess, FreshState, EffectInv, StateIsLost
<1>2. CASE ResetNothing
  BY <1>2 DEF ResetNothing, nodeVars, stateVars
<1>3. CASE StartFails \/ CheckAlive \/ WriteRequest \/ ReadEndOfStream
  BY <1>3, ThrowKeepsTypes
     DEF StartFails, CheckAlive, WriteRequest, ReadEndOfStream, nodeVars, stateVars
<1>4. CASE ReadResponse
  BY <1>4, ThrowKeepsTypes DEF ReadResponse, nodeVars, stateVars
<1> QED
  BY <1>1, <1>2, <1>3, <1>4 DEF ClientStep

LEMMA ProcessKeepsTypes ==
  ASSUME ParserInv, HandleLine \/ PrepareNextFile \/ Crash
  PROVE  typeTable \subseteq typeTable' \/ node' # "running" \/ call.command = "reset"
<1>1. \A f, prog : RecordTypes(f, prog) => typeTable \subseteq typeTable'
  BY DEF RecordTypes
<1>2. CASE HandleParse
  BY <1>1, <1>2 DEF HandleParse, Exit
<1>3. CASE HandleReset
  <2>1. request \in {call, Metadata} /\ request.command = "reset"
    BY <1>3, HandlingTurn DEF HandleReset, ParserInv, Lockstep
  <2> QED
    BY <2>1 DEF Metadata
<1>4. CASE PrepareNextFile
  BY <1>1, <1>4 DEF PrepareNextFile, Exit, stateVars
<1>5. CASE Crash
  BY <1>5 DEF Crash, Exit
<1>6. CASE \/ HandlePrepareFiles \/ HandleGetOwnFiles \/ HandleOpenProject
           \/ HandleCloseProject \/ HandleGetTypeTable \/ HandleGetMetadata
  BY <1>6 DEF HandlePrepareFiles, HandleGetOwnFiles, HandleOpenProject, HandleCloseProject,
     HandleGetTypeTable, HandleGetMetadata, nodeVars, stateVars
<1> QED
  BY <1>2, <1>3, <1>4, <1>5, <1>6 DEF HandleLine

\* Opening and closing projects, preparing files, parsing ahead and restarting
\* the compiler keep every type that was recorded: only a reset or the end of
\* the process forgets (TypeTable, Project.reload).
THEOREM KeepsTypes == Spec => TypesAreKept
<1> DEFINE Keeps == typeTable \subseteq typeTable' \/ node' # "running" \/ call.command = "reset"
<1>1. ParserInv /\ EffectInv /\ [Next]_parserVars => [Keeps]_typeTable
  <2> SUFFICES ASSUME ParserInv, EffectInv, [Next]_parserVars PROVE [Keeps]_typeTable
    OBVIOUS
  <2>1. CASE ClientStep
    BY <2>1, ClientKeepsTypes
  <2>2. CASE HandleLine \/ PrepareNextFile \/ Crash
    BY <2>2, ProcessKeepsTypes
  <2>3. CASE (\E c \in Call : Invoke(c)) \/ (\E f \in File : DeleteFile(f)) \/ UNCHANGED parserVars
    BY <2>3 DEF Invoke, DeleteFile, parserVars, nodeVars, stateVars
  <2>4. CASE KillProcess
    BY <2>4 DEF KillProcess, Destroy
  <2> QED
    BY <2>1, <2>2, <2>3, <2>4 DEF Next, Internal
<1> QED
  BY <1>1, EffectInvariant, PTL DEF Spec, TypesAreKept
=============================================================================
