----------------------- MODULE ParserRefinement_proofs -----------------------
(***************************************************************************)
(* The parser wrapper implements ParserService: every step of the client,  *)
(* the process or the file system is one of the service, or none.          *)
(***************************************************************************)
EXTENDS ParserRefinement, ParserWrapper_proofs

(* What is left of the announced files.                                    *)

LEMMA NothingAnnounced ==
  ASSUME pendingFiles = <<>>, pendingFileIndex = 0
  PROVE  announcedBar = <<>>
<1>1. announcedBar = SubSeq(<<>>, 1, 0)
  BY DEF announcedBar
<1> QED
  BY <1>1

LEMMA WholeList ==
  ASSUME NEW S, NEW s \in Seq(S)
  PROVE  SubSeq(s, 1, Len(s)) = s
OBVIOUS

\* A parse request takes the first of the files that are left.
LEMMA FirstOfRest ==
  ASSUME NEW S, NEW s \in Seq(S), NEW i \in Nat, i < Len(s)
  PROVE  LET rest == SubSeq(s, i + 1, Len(s)) IN
         /\ rest # <<>>
         /\ Head(rest) = s[i + 1]
         /\ Tail(rest) = SubSeq(s, i + 2, Len(s))
<1> DEFINE rest == SubSeq(s, i + 1, Len(s))
           next == SubSeq(s, i + 2, Len(s))
<1>1. Len(s) \in Nat
  OBVIOUS
<1>2. rest \in Seq(S) /\ Len(rest) = Len(s) - i
      /\ \A k \in 1..(Len(s) - i) : rest[k] = s[i + k]
  BY <1>1, SubSeqProperties
<1>3. next \in Seq(S) /\ Len(next) = Len(s) - (i + 1)
      /\ \A k \in 1..(Len(s) - (i + 1)) : next[k] = s[i + 1 + k]
  BY <1>1, SubSeqProperties
<1> HIDE DEF rest, next
<1>4. rest # <<>> /\ Head(rest) = rest[1] /\ Head(rest) = s[i + 1]
  BY <1>1, <1>2
<1>5. Tail(rest) \in Seq(S) /\ Len(Tail(rest)) = Len(s) - (i + 1)
      /\ \A k \in 1..(Len(s) - (i + 1)) : Tail(rest)[k] = rest[k + 1]
  BY <1>1, <1>2, <1>4, HeadTailProperties
<1>6. \A k \in 1..(Len(s) - (i + 1)) : Tail(rest)[k] = next[k]
  BY <1>1, <1>2, <1>3, <1>5
<1>7. Tail(rest) = next
  BY <1>3, <1>5, <1>6, SeqEqual
<1> QED
  BY <1>4, <1>7 DEF rest, next

-----------------------------------------------------------------------------
(* The variables of the service.                                           *)

serviceVars == <<phaseBar, call, project, announcedBar, lastOkBar>>

LEMMA SameAnnounced ==
  ASSUME UNCHANGED <<pendingFiles, pendingFileIndex>>
  PROVE  UNCHANGED announcedBar
BY DEF announcedBar

LEMMA SameService ==
  ASSUME UNCHANGED nodeVars
  PROVE  UNCHANGED <<project, announcedBar>>
BY SameAnnounced DEF nodeVars, stateVars, batchVars

\* A service that is gone remembers nothing.
LEMMA LostService ==
  ASSUME StateIsLost, node # "running"
  PROVE  project = NoProject /\ announcedBar = <<>>
BY NothingAnnounced DEF StateIsLost

LEMMA FreshService ==
  ASSUME FreshState
  PROVE  project' = NoProject /\ announcedBar' = <<>>
<1>1. project' = NoProject /\ pendingFiles' = <<>> /\ pendingFileIndex' = 0
  BY DEF FreshState
<1>2. announcedBar' = SubSeq(<<>>, 1, 0)
  BY <1>1 DEF announcedBar
<1> QED
  BY <1>1, <1>2

LEMMA PhaseOfTalk ==
  /\ pc = "idle" => phaseBar = "idle"
  /\ pc # "idle" /\ (pc # "read" \/ stdout = <<>> \/ request # call) => phaseBar = "invoked"
BY DEF phaseBar, Applied

LEMMA PhaseOfTalkPrimed ==
  /\ pc' = "idle" => phaseBar' = "idle"
  /\ pc' # "idle" /\ (pc' # "read" \/ stdout' = <<>> \/ request' # call')
       => phaseBar' = "invoked"
BY DEF phaseBar, Applied

LEMMA SamePhase ==
  ASSUME UNCHANGED <<clientVars, stdout>>
  PROVE  UNCHANGED <<phaseBar, call, lastOkBar>>
BY DEF phaseBar, Applied, lastOkBar, clientVars

\* A result is something.
LEMMA ReturnedOk ==
  ASSUME NEW response \in Response \cup {NoResponse}, call \in Call, Return("ok", response)
  PROVE  phaseBar' = "idle" /\ call' = NoCall /\ lastOkBar' = TRUE
<1>1. result' \in Result /\ result'.outcome = "ok"
  BY DEF Return, Result
<1>2. result' # NoResult
  BY <1>1, ParserAssumption
<1> QED
  BY <1>1, <1>2 DEF Return, phaseBar, lastOkBar

LEMMA ReturnedError ==
  ASSUME NEW error \in Errors, Return(error, NoResponse)
  PROVE  phaseBar' = "idle" /\ call' = NoCall /\ lastOkBar' = FALSE
BY DEF Return, phaseBar, lastOkBar, Errors

-----------------------------------------------------------------------------
(* Steps of the client.                                                    *)

\* An exception: the call fails, or it is a reset of a dead process.
LEMMA ThrowImplements ==
  ASSUME NEW error \in Errors, NEW unread, Throw(error, unread),
         EffectInv, call \in Call, pc # "idle",
         node # "running" \/ call.command # "reset"
  PROVE  Service!Next
<1>1. phaseBar # "idle"
  BY DEF phaseBar
<1>2. CASE Destroy /\ Return("ok", NoResponse) /\ call.command = "reset"
  <2>1. project = NoProject /\ announcedBar = <<>>
    BY <1>2, LostService DEF EffectInv
  <2>2. project' = NoProject /\ announcedBar' = <<>>
    BY <1>2, FreshService DEF Destroy, FreshProcess
  <2>3. phaseBar' = "idle" /\ call' = NoCall /\ lastOkBar' = TRUE
    BY <1>2, ReturnedOk
  <2>4. phaseBar \in {"invoked", "applied"}
    BY <1>1 DEF phaseBar
  <2>5. Service!ReturnNormally
    BY <1>2, <2>1, <2>2, <2>3, <2>4 DEF Service!ReturnNormally, Service!ResetIsVacuous
  <2> QED
    BY <2>5 DEF Service!Next
<1>3. CASE Return(error, NoResponse) /\ UNCHANGED nodeVars
  <2>1. Service!Fail
    BY <1>1, <1>3, ReturnedError, SameService DEF Service!Fail
  <2> QED
    BY <2>1 DEF Service!Next
<1> QED
  BY <1>2, <1>3 DEF Throw

LEMMA InvokeImplements ==
  ASSUME NEW c \in Call, Invoke(c)
  PROVE  Service!Next
<1>1. phaseBar = "idle" /\ phaseBar' = "invoked"
  BY PhaseOfTalk, PhaseOfTalkPrimed DEF Invoke
<1>2. lastOkBar' = FALSE
  BY DEF Invoke, lastOkBar
<1>3. Service!Invoke(c)
  BY <1>1, <1>2, SameService DEF Invoke, Service!Invoke
<1> QED
  BY <1>3 DEF Service!Next

LEMMA ResetNothingImplements ==
  ASSUME ParserInv, EffectInv, ResetNothing
  PROVE  Service!Next
<1>1. node # "running" /\ call \in Call
  BY DEF ResetNothing, ParserInv, Lockstep
<1>2. project = NoProject /\ announcedBar = <<>>
  BY <1>1, LostService DEF EffectInv
<1>3. phaseBar = "invoked"
  BY PhaseOfTalk DEF ResetNothing
<1>4. phaseBar' = "idle" /\ call' = NoCall /\ lastOkBar' = TRUE
  BY <1>1, ReturnedOk DEF ResetNothing
<1>5. Service!ReturnNormally
  BY <1>2, <1>3, <1>4, SameService
     DEF ResetNothing, Service!ReturnNormally, Service!ResetIsVacuous
<1> QED
  BY <1>5 DEF Service!Next

\* A process is started for a call that has not taken effect.
LEMMA StartProcessImplements ==
  ASSUME ParserInv, EffectInv, StartProcess
  PROVE  UNCHANGED serviceVars
<1>1. node # "running"
  BY DEF StartProcess, ParserInv, Lockstep
<1>2. UNCHANGED <<project, announcedBar>>
  BY <1>1, LostService, FreshService DEF EffectInv, StartProcess, FreshProcess
<1>3. UNCHANGED <<phaseBar, call>>
  BY PhaseOfTalk, PhaseOfTalkPrimed DEF StartProcess
<1>4. UNCHANGED lastOkBar
  BY DEF StartProcess, lastOkBar
<1> QED
  BY <1>2, <1>3, <1>4 DEF serviceVars

LEMMA StartFailsImplements ==
  ASSUME ParserInv, EffectInv, StartFails
  PROVE  Service!Next
<1>1. call \in Call /\ pc # "idle" /\ call.command # "reset"
  BY DEF StartFails, ParserInv, Lockstep
<1> QED
  BY <1>1, Constants, ThrowImplements DEF StartFails

\* A step of a call that goes on, before it has taken effect.
LEMMA TalkImplements ==
  ASSUME UNCHANGED <<call, result, nodeVars>>,
         pc # "idle", pc # "read" \/ stdout = <<>> \/ request # call,
         pc' # "idle", pc' # "read" \/ stdout' = <<>> \/ request' # call'
  PROVE  UNCHANGED serviceVars
<1>1. UNCHANGED <<phaseBar, lastOkBar>>
  BY PhaseOfTalk, PhaseOfTalkPrimed DEF lastOkBar
<1> QED
  BY <1>1, SameService DEF serviceVars

LEMMA CheckAliveImplements ==
  ASSUME ParserInv, EffectInv, CheckAlive
  PROVE  Service!Next \/ UNCHANGED serviceVars
<1>1. call \in Call
  BY DEF CheckAlive, ParserInv, Lockstep
<1>2. CASE node = "running"
  BY <1>2, TalkImplements DEF CheckAlive
<1>3. CASE node = "exited"
  BY <1>1, <1>3, ThrowImplements DEF CheckAlive, ErrorOfExit, Errors
<1> QED
  BY <1>2, <1>3 DEF CheckAlive

LEMMA WriteRequestImplements ==
  ASSUME ParserInv, EffectInv, WriteRequest
  PROVE  Service!Next \/ UNCHANGED serviceVars
<1>1. call \in Call /\ stdout = <<>>
  BY DEF WriteRequest, ParserInv, Lockstep, PipesInStep
<1>2. CASE node = "running"
  BY <1>1, <1>2, TalkImplements DEF WriteRequest
<1>3. CASE node = "exited"
  BY <1>1, <1>3, ThrowImplements DEF WriteRequest, Errors
<1> QED
  BY <1>2, <1>3 DEF WriteRequest

LEMMA ReadEndOfStreamImplements ==
  ASSUME ParserInv, EffectInv, ReadEndOfStream
  PROVE  Service!Next
<1>1. call \in Call
  BY DEF ReadEndOfStream, ParserInv, Lockstep
<1> QED
  BY <1>1, ThrowImplements DEF ReadEndOfStream, ErrorOfExit, Errors

\* The answer to the call is only read when the call has taken effect.
LEMMA ReadResponseImplements ==
  ASSUME ParserInv, EffectInv, ReadResponse
  PROVE  Service!Next \/ UNCHANGED serviceVars
<1> DEFINE response == Head(stdout)
           expected == response.type = ExpectedType[request.command]
<1>1. /\ call \in Call /\ request \in {call, Metadata} /\ pc = "read" /\ stdout # <<>>
      /\ Len(stdout) = 1 /\ stdout \in Seq(Response)
  BY TypeOKParts DEF ReadResponse, ParserInv, Lockstep, PipesTypeOK
<1>2. response \in Response
  BY <1>1, OneLine
<1>3. CASE ~expected /\ Throw("CatastrophicError", Tail(stdout))
  <2>1. call.command = "close-project"
    BY <1>1, <1>3, UnexpectedAnswer
  <2> QED
    BY <1>1, <1>3, <2>1, ThrowImplements DEF Errors
<1>4. CASE /\ request = Metadata
           /\ pc' = "check"
           /\ UNCHANGED <<call, result, handle, stdin, nodeVars>>
  BY <1>1, <1>4, MetadataIsNoCall, TalkImplements
<1>5. CASE /\ expected /\ request # Metadata
           /\ Return("ok", response)
           /\ UNCHANGED <<handle, metadata, stdin, nodeVars>>
  <2>1. phaseBar = "applied"
    BY <1>1, <1>5 DEF phaseBar, Applied
  <2>2. phaseBar' = "idle" /\ call' = NoCall /\ lastOkBar' = TRUE
    BY <1>1, <1>2, <1>5, ReturnedOk
  <2>3. Service!ReturnNormally
    BY <1>5, <2>1, <2>2, SameService DEF Service!ReturnNormally
  <2> QED
    BY <2>3 DEF Service!Next
<1> QED
  BY <1>3, <1>4, <1>5 DEF ReadResponse

LEMMA KillProcessImplements ==
  ASSUME KillProcess
  PROVE  Service!Next
<1>1. UNCHANGED <<phaseBar, call>> /\ lastOkBar' = FALSE
  BY DEF KillProcess, phaseBar, lastOkBar
<1>2. project' = NoProject /\ announcedBar' = <<>>
  BY FreshService DEF KillProcess, Destroy, FreshProcess
<1>3. Service!LoseState
  BY <1>1, <1>2 DEF Service!LoseState, Service!Fresh
<1> QED
  BY <1>3 DEF Service!Next

-----------------------------------------------------------------------------
(* Steps of the process.                                                   *)

LEMMA ExitImplements ==
  ASSUME NEW code, Exit(code), UNCHANGED <<clientVars, stdout>>
  PROVE  Service!Next
<1>1. project' = NoProject /\ announcedBar' = <<>>
  BY FreshService DEF Exit
<1>2. Service!LoseState
  BY <1>1, SamePhase DEF Service!LoseState, Service!Fresh
<1> QED
  BY <1>2 DEF Service!Next

\* A request other than that for metadata is the call of the client.
LEMMA RequestIsCall ==
  ASSUME ParserInv, NEW command, Handling(command), command # "get-metadata"
  PROVE  request = call /\ Head(stdin) = call /\ call.command = command
BY HandlingTurn DEF ParserInv, Lockstep, Metadata

\* A handler that answers what is expected applies the call.
LEMMA AnswerApplies ==
  ASSUME ParserInv, NEW command, Handling(command), command # "get-metadata",
         NEW a, Answer(a), a.type = ExpectedType[command]
  PROVE  /\ phaseBar = "invoked" /\ phaseBar' = "applied"
         /\ UNCHANGED <<call, lastOkBar>>
<1>1. pc = "read" /\ stdout = <<>> /\ request = call /\ request.command = command
  BY HandlingTurn, RequestIsCall
<1>2. phaseBar = "invoked"
  BY <1>1, PhaseOfTalk
<1>3. UNCHANGED clientVars /\ Head(stdout') = a /\ stdout' # <<>>
  BY <1>1 DEF Handling, Answer
<1>4. phaseBar' = "applied"
  BY <1>1, <1>3 DEF phaseBar, Applied, clientVars
<1> QED
  BY <1>2, <1>3, <1>4 DEF clientVars, lastOkBar

LEMMA EffectImplements ==
  ASSUME phaseBar = "invoked", phaseBar' = "applied", UNCHANGED <<call, lastOkBar>>,
         Service!Effect
  PROVE  Service!Next
BY DEF Service!Apply, Service!Next

LEMMA HandleParseImplements ==
  ASSUME ParserInv, EffectInv, HandleParse
  PROVE  Service!Next
<1> DEFINE f == Head(stdin).file
<1>1. Handling("parse") /\ UNCHANGED clientVars
  BY DEF HandleParse, Handling
<1>2. CASE Exit(UncaughtException) /\ UNCHANGED stdout
  BY <1>1, <1>2, ExitImplements
<1>3. CASE /\ NextFileIs(f)
           /\ \/ pendingResponse # NoResponse /\ Answer(pendingResponse)
              \/ Answer(AstOf(f, program))
           /\ pendingFileIndex' = pendingFileIndex + 1
           /\ UNCHANGED <<project, pendingFiles>>
  <2>1. call.command = "parse" /\ call.file = f
    BY <1>1, RequestIsCall
  <2>2. PICK a : Answer(a) /\ a.type = "ast"
    <3>1. pendingResponse # NoResponse => pendingResponse.type = "ast"
      BY DEF ParserInv, TypeOK, Ast
    <3> QED
      BY <1>3, <3>1 DEF AstOf
  <2>3. phaseBar = "invoked" /\ phaseBar' = "applied" /\ UNCHANGED <<call, lastOkBar>>
    BY <1>1, <2>2, AnswerApplies DEF ExpectedType
  <2>4. pendingFiles \in Seq(File) /\ pendingFileIndex \in Nat
        /\ pendingFileIndex < Len(pendingFiles) /\ pendingFiles[pendingFileIndex + 1] = f
    BY <1>3 DEF ParserInv, TypeOK, NextFileIs
  <2>5. announcedBar # <<>> /\ Head(announcedBar) = f
        /\ Tail(announcedBar) = SubSeq(pendingFiles, pendingFileIndex + 2, Len(pendingFiles))
    BY <2>4, FirstOfRest DEF announcedBar
  <2>6. announcedBar' = SubSeq(pendingFiles, pendingFileIndex + 2, Len(pendingFiles))
    BY <1>3, <2>4 DEF announcedBar
  <2>7. Service!Effect
    BY <1>3, <2>1, <2>5, <2>6 DEF Service!Effect
  <2> QED
    BY <2>3, <2>7, EffectImplements
<1> QED
  BY <1>2, <1>3 DEF HandleParse

LEMMA HandlePrepareFilesImplements ==
  ASSUME ParserInv, EffectInv, HandlePrepareFiles
  PROVE  Service!Next
<1>1. Handling("prepare-files") /\ Answer([type |-> "ok"])
  BY DEF HandlePrepareFiles
<1>2. call.command = "prepare-files" /\ call.files = Head(stdin).files /\ call \in Call
  BY <1>1, RequestIsCall, HandlingTurn DEF ParserInv, Lockstep
<1>3. call.files \in Seq(File)
  BY <1>2, Constants DEF Call, Request, ProjectCommands, Commands
<1>4. announcedBar' = SubSeq(call.files, 1, Len(call.files))
  BY <1>2 DEF HandlePrepareFiles, announcedBar
<1>5. announcedBar' = call.files /\ UNCHANGED project
  BY <1>3, <1>4, WholeList DEF HandlePrepareFiles
<1>6. Service!Effect
  BY <1>2, <1>5 DEF Service!Effect
<1>7. phaseBar = "invoked" /\ phaseBar' = "applied" /\ UNCHANGED <<call, lastOkBar>>
  BY <1>1, AnswerApplies DEF ExpectedType, ProjectCommands, Commands
<1> QED
  BY <1>6, <1>7, EffectImplements

LEMMA HandleQueryImplements ==
  ASSUME ParserInv, EffectInv, HandleGetOwnFiles \/ HandleGetTypeTable
  PROVE  Service!Next
<1>1. PICK command, a :
        /\ command \in {"get-own-files", "get-type-table"}
        /\ Handling(command) /\ Answer(a)
        /\ a.type = ExpectedType[command]
        /\ UNCHANGED nodeVars
  BY DEF HandleGetOwnFiles, HandleGetTypeTable, ExpectedType, ProjectCommands, Commands
<1>2. Service!Effect
  BY <1>1, RequestIsCall, SameService DEF Service!Effect
<1>3. phaseBar = "invoked" /\ phaseBar' = "applied" /\ UNCHANGED <<call, lastOkBar>>
  BY <1>1, AnswerApplies
<1> QED
  BY <1>2, <1>3, EffectImplements

LEMMA HandleOpenProjectImplements ==
  ASSUME ParserInv, EffectInv, HandleOpenProject
  PROVE  Service!Next
<1>1. PICK a : /\ Handling("open-project") /\ Answer(a)
               /\ a.type = ExpectedType["open-project"]
  BY DEF HandleOpenProject, ExpectedType, ProjectCommands, Commands
<1>2. call.command = "open-project" /\ project' = call.tsConfig
  BY <1>1, RequestIsCall DEF HandleOpenProject
<1>3. UNCHANGED announcedBar
  BY SameAnnounced DEF HandleOpenProject, batchVars
<1>4. Service!Effect
  BY <1>2, <1>3 DEF Service!Effect
<1>5. phaseBar = "invoked" /\ phaseBar' = "applied" /\ UNCHANGED <<call, lastOkBar>>
  BY <1>1, AnswerApplies
<1> QED
  BY <1>4, <1>5, EffectImplements

\* A project that is not open cannot be closed: the answer is an error, and
\* nothing has happened.
LEMMA HandleCloseProjectImplements ==
  ASSUME ParserInv, EffectInv, HandleCloseProject
  PROVE  Service!Next \/ UNCHANGED serviceVars
<1>1. Handling("close-project") /\ request = call /\ call.command = "close-project"
      /\ UNCHANGED <<clientVars, announcedBar>>
  BY RequestIsCall, SameAnnounced DEF HandleCloseProject, Handling, batchVars
<1>2. CASE Answer([type |-> "error"]) /\ UNCHANGED project
  <2>1. pc = "read" /\ stdout = <<>>
    BY <1>1, HandlingTurn
  <2>2. Head(stdout').type = "error"
    BY <1>2, <2>1 DEF Answer
  <2>3. UNCHANGED <<phaseBar, lastOkBar, call>>
    BY <1>1, <2>1, <2>2 DEF phaseBar, Applied, lastOkBar, clientVars, ExpectedType,
       ProjectCommands, Commands
  <2> QED
    BY <1>1, <1>2, <2>3 DEF serviceVars
<1>3. CASE /\ project # NoProject /\ project' = NoProject
           /\ Answer([type |-> "project-closed"])
  <2>1. Service!Effect
    BY <1>1, <1>3 DEF Service!Effect
  <2>2. phaseBar = "invoked" /\ phaseBar' = "applied" /\ UNCHANGED <<call, lastOkBar>>
    BY <1>1, <1>3, AnswerApplies DEF ExpectedType, ProjectCommands, Commands
  <2> QED
    BY <2>1, <2>2, EffectImplements
<1> QED
  BY <1>2, <1>3 DEF HandleCloseProject

\* The metadata of a new process is not the answer to the call.
LEMMA HandleGetMetadataImplements ==
  ASSUME ParserInv, EffectInv, HandleGetMetadata
  PROVE  UNCHANGED serviceVars
<1>1. pc = "read" /\ request.command = "get-metadata" /\ UNCHANGED <<clientVars, nodeVars>>
  BY HandlingTurn DEF HandleGetMetadata, Handling
<1>2. request # call
  BY <1>1 DEF ParserInv, Lockstep, Call
<1> QED
  BY <1>1, <1>2, TalkImplements DEF clientVars

LEMMA HandleResetImplements ==
  ASSUME ParserInv, EffectInv, HandleReset
  PROVE  Service!Next
<1>1. PICK a : Handling("reset") /\ Answer(a) /\ a.type = ExpectedType["reset"]
  BY DEF HandleReset, ExpectedType, ProjectCommands, Commands
<1>2. call.command = "reset"
  BY <1>1, RequestIsCall
<1>3. project' = NoProject /\ announcedBar' = <<>>
  BY FreshService DEF HandleReset
<1>4. Service!Effect
  BY <1>2, <1>3 DEF Service!Effect, Service!Fresh
<1>5. phaseBar = "invoked" /\ phaseBar' = "applied" /\ UNCHANGED <<call, lastOkBar>>
  BY <1>1, AnswerApplies
<1> QED
  BY <1>4, <1>5, EffectImplements

\* What is parsed ahead, and a restart of the compiler, are invisible.
LEMMA PrepareNextFileImplements ==
  ASSUME PrepareNextFile
  PROVE  Service!Next \/ UNCHANGED serviceVars
<1>1. UNCHANGED <<clientVars, stdout>>
  BY DEF PrepareNextFile
<1>2. CASE UNCHANGED <<project, pendingFiles, pendingFileIndex>>
  BY <1>1, <1>2, SameAnnounced, SamePhase DEF serviceVars
<1>3. CASE Exit(UncaughtException)
  BY <1>1, <1>3, ExitImplements
<1> QED
  BY <1>2, <1>3 DEF PrepareNextFile, stateVars, batchVars

-----------------------------------------------------------------------------
LEMMA InitImplements == ParserInit => Service!Init
<1> SUFFICES ASSUME ParserInit PROVE Service!Init
  OBVIOUS
<1>1. phaseBar = "idle" /\ lastOkBar = FALSE
  BY DEF ParserInit, phaseBar, lastOkBar
<1>2. announcedBar = <<>>
  BY NothingAnnounced DEF ParserInit
<1> QED
  BY <1>1, <1>2 DEF ParserInit, Service!Init

LEMMA StepImplements ==
  ParserInv /\ EffectInv /\ [Next]_parserVars => [Service!Next]_Service!vars
<1> SUFFICES ASSUME ParserInv, EffectInv, [Next]_parserVars
             PROVE  Service!Next \/ UNCHANGED serviceVars
  BY DEF Service!vars, serviceVars
<1>1. CASE \E c \in Call : Invoke(c)
  BY <1>1, InvokeImplements
<1>2. CASE KillProcess
  BY <1>2, KillProcessImplements
<1>3. CASE ClientStep
  BY <1>3, ResetNothingImplements, StartProcessImplements, StartFailsImplements,
     CheckAliveImplements, WriteRequestImplements, ReadResponseImplements,
     ReadEndOfStreamImplements DEF ClientStep
<1>4. CASE HandleLine
  BY <1>4, HandleParseImplements, HandlePrepareFilesImplements, HandleQueryImplements,
     HandleOpenProjectImplements, HandleCloseProjectImplements,
     HandleGetMetadataImplements, HandleResetImplements DEF HandleLine
<1>5. CASE PrepareNextFile
  BY <1>5, PrepareNextFileImplements
<1>6. CASE Crash
  BY <1>6, ExitImplements DEF Crash
<1>7. CASE (\E f \in File : DeleteFile(f)) \/ UNCHANGED parserVars
  BY <1>7, SamePhase, SameService DEF DeleteFile, parserVars, pipes, serviceVars
<1> QED
  BY <1>1, <1>2, <1>3, <1>4, <1>5, <1>6, <1>7 DEF Next, Internal

\* Pipes, starts and deaths of the process, work done ahead and restarts of
\* the compiler are invisible to the caller: a call takes effect at most once,
\* returns normally only when it has, and parse answers for the announced
\* files in the announced order (TypeScriptParser against main.ts).
THEOREM Implements == Spec => ImplementsService
<1> QED
  BY InitImplements, StepImplements, EffectInvariant, PTL
     DEF Spec, Init, ImplementsService, Service!Spec
=============================================================================
