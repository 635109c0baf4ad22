-------------------------- MODULE ParserRefinement ---------------------------
(***************************************************************************)
(* The parser wrapper implements ParserService.                            *)
(***************************************************************************)
EXTENDS ParserWrapper

\* The request has been handled: its answer, which is not an error, is in the
\* pipe.  The answer to the get-metadata request of a new process is not an
\* answer to the call.
Applied ==
  /\ pc = "read" /\ stdout # <<>> /\ request = call
  /\ Head(stdout).type = ExpectedType[request.command]

phaseBar == IF pc = "idle" THEN "idle" ELSE IF Applied THEN "applied" ELSE "invoked"
announcedBar == SubSeq(pendingFiles, pendingFileIndex + 1, Len(pendingFiles))
lastOkBar == result # NoResult /\ result.outcome = "ok"

Service == INSTANCE ParserService WITH
  phase <- phaseBar, open <- project, announced <- announcedBar, lastOk <- lastOkBar

\* Work done ahead, restarts of the compiler, pipes and starts of a process
\* are invisible: every behaviour is one of the service.
ImplementsService == Service!Spec
=============================================================================
