------------------------------- MODULE Driver -------------------------------
(***************************************************************************)
(* The driver of the C# extractor: Extractor.Run in each of the processes  *)
(* that the build starts, one for each call of the compiler.  A process    *)
(* claims its command line by a file whose name is a hash of it, reads the *)
(* source files and finds the assemblies, runs the tasks of TrapWriter in  *)
(* parallel, counts errors and returns an exit code.  Every step of a task *)
(* is a step of TrapWriter; here are the steps around them.                *)
(***************************************************************************)
EXTENDS TrapWriter

CONSTANTS
  Args,         \* [Process -> what the file of arguments is named after]
  Unrecognized, \* processes that may have been started for another compiler
  Unparsable,   \* processes whose command line may not parse
  Unclaimable,  \* processes that may fail to give the file of arguments its name
  Erroneous,    \* processes whose program may have compilation errors
  Unhandled     \* processes in which an exception may escape

VARIABLES
  stage,   \* where Extractor.Run is
  logged,  \* arguments that have a file in the log folder
  claim,   \* what LogRoslynArgs returned
  errors,  \* processes with TotalErrors > 0
  code     \* what Run returned

driverVars == <<stage, logged, claim, errors, code>>
allVars    == <<vars, driverVars>>

TasksOf(p) == {w \in Task : ProcessOf[w] = p}

\* The syntax trees; other tasks are for assemblies and the compilation.
IsTree(w) == Source[w] # None

ASSUME DriverAssumption ==
  /\ Unrecognized \cup Unparsable \cup Unclaimable \cup Erroneous \cup Unhandled \subseteq Process
  /\ \A p \in Process : \E l \in TasksOf(p) : TasksOf(p) \cap Last = {l}
  /\ \A l \in Last : ~IsTree(l)

DriverTypeOK ==
  /\ stage \in [Process -> {"start", "move", "read", "extract", "dispose", "exited",
                            "killed"}]
  /\ logged \subseteq {Args[p] : p \in Process}
  /\ claim \in [Process -> {"none", "claimed", "skipped"}]
  /\ errors \subseteq Process
  /\ code \in [Process -> {"none", "Ok", "Errors", "Failed"}]

DriverInit ==
  /\ Init
  /\ stage = [p \in Process |-> "start"]
  /\ logged = {}
  /\ claim = [p \in Process |-> "none"]
  /\ errors = {}
  /\ code = [p \in Process |-> "none"]

GotoStage(p, s) == stage' = [stage EXCEPT ![p] = s]

\* The using statement disposes of the Analyser.
Leave(p, c) ==
  /\ GotoStage(p, "dispose")
  /\ code' = [code EXCEPT ![p] = c]

-----------------------------------------------------------------------------
(* Before the extraction.                                                  *)

NotACompiler(p) ==
  /\ stage[p] = "start" /\ p \in Unrecognized
  /\ Leave(p, "Ok")
  /\ UNCHANGED <<vars, logged, claim, errors>>

NotParsed(p) ==
  /\ stage[p] = "start" /\ p \in Unparsable
  /\ errors' = errors \cup {p}
  /\ Leave(p, "Failed")
  /\ UNCHANGED <<vars, logged, claim>>

\* LogRoslynArgs finds the file and returns false: another process has been
\* here, and this one has nothing to do.
SkipArguments(p) ==
  /\ stage[p] = "start"
  /\ Args[p] \in logged
  /\ claim' = [claim EXCEPT ![p] = "skipped"]
  /\ Leave(p, "Ok")
  /\ UNCHANGED <<vars, logged, errors>>

\* Mutant: the file gets its name first, and then the test is made.
NewArguments_Moves(p) ==
  /\ stage[p] = "start"
  /\ Args[p] \notin logged
  /\ logged' = logged \cup {Args[p]}
  /\ UNCHANGED <<vars, stage, claim, errors, code>>

NewArguments(p) ==
  /\ stage[p] = "start"
  /\ Args[p] \notin logged
  /\ GotoStage(p, "move")
  /\ UNCHANGED <<vars, logged, claim, errors, code>>

\* If the move fails, be it that another process has been faster, the process
\* goes on.
ClaimArguments(p) ==
  /\ stage[p] = "move"
  /\ \/ logged' = logged \cup {Args[p]}
     \/ p \in Unclaimable /\ UNCHANGED logged
  /\ claim' = [claim EXCEPT ![p] = "claimed"]
  /\ GotoStage(p, "read")
  /\ UNCHANGED <<vars, errors, code>>

OpenFile(w) ==
  /\ stage[ProcessOf[w]] = "read"
  /\ Open(w)
  /\ UNCHANGED driverVars

\* Mutant: a file that is not there does not count.
MissFile_Uncounted(w) ==
  /\ stage[ProcessOf[w]] = "read"
  /\ Miss(w)
  /\ UNCHANGED driverVars

\* The count is incremented under a lock.
MissFile(w) ==
  /\ stage[ProcessOf[w]] = "read"
  /\ Miss(w)
  /\ errors' = errors \cup {ProcessOf[w]}
  /\ UNCHANGED <<stage, logged, claim, code>>

FilesAreRead(p) ==
  /\ stage[p] = "read"
  /\ \A w \in TasksOf(p) : at[w] # "open"

HasTrees(p) == \E w \in TasksOf(p) : IsTree(w) /\ at[w] = "check"

NoSourceFiles(p) ==
  /\ FilesAreRead(p) /\ ~HasTrees(p)
  /\ errors' = errors \cup {p}
  /\ Leave(p, "Failed")
  /\ UNCHANGED <<vars, logged, claim>>

\* CSharpCompilation.Create and EndInitialize.  Compilation errors are counted;
\* the extraction goes on with what there is.
Compile(p) ==
  /\ FilesAreRead(p) /\ HasTrees(p)
  /\ \/ UNCHANGED errors
     \/ p \in Erroneous /\ errors' = errors \cup {p}
  /\ GotoStage(p, "extract")
  /\ UNCHANGED <<vars, logged, claim, code>>

\* The exception ends Run; files that have not been opened by then stay so.
UnhandledException(p) ==
  /\ stage[p] \in {"start", "move", "read"} /\ p \in Unhandled
  /\ Leave(p, "Errors")
  /\ UNCHANGED <<vars, logged, claim, errors>>

-----------------------------------------------------------------------------
(* PerformExtraction, and what comes after it.                             *)

StartTask(w) ==
  /\ stage[ProcessOf[w]] = "extract"
  /\ Skip(w) \/ Begin(w)
  /\ UNCHANGED driverVars

\* Of the trap file of the compilation only Dispose is left.
RunTask(w) ==
  /\ \/ DeleteArchived(w) \/ MoveToArchive(w)
     \/ Publish(w) \/ Compare(w) \/ PublishCopy(w) \/ Drop(w)
  /\ UNCHANGED driverVars

\* What Try has caught in the context counts.
EndTask(w) ==
  /\ w \notin Last
  /\ Close(w)
  /\ \/ UNCHANGED errors
     \/ w \in Throws /\ errors' = errors \cup {ProcessOf[w]}
  /\ UNCHANGED <<stage, logged, claim, code>>

\* An exception that leaves the extraction of a source file is a message of the
\* extractor; one that leaves that of an assembly is only logged.
ThrowTask(w) ==
  /\ w \notin Last
  /\ Throw(w)
  /\ errors' = IF IsTree(w) THEN errors \cup {ProcessOf[w]} ELSE errors
  /\ UNCHANGED <<stage, logged, claim, code>>

\* All tasks have returned: the times go to the trap file of the compilation,
\* which is closed when Run leaves.
LogPerformance(w) ==
  /\ w \in Last /\ stage[ProcessOf[w]] = "extract"
  /\ Close(w)
  /\ Leave(ProcessOf[w], IF ProcessOf[w] \in errors THEN "Errors" ELSE "Ok")
  /\ UNCHANGED <<logged, claim, errors>>

\* DoAnalyseCompilation has thrown: there is no entity to give the times to.
NoCompilationEntity(w) ==
  /\ w \in Last /\ stage[ProcessOf[w]] = "extract"
  /\ Throw(w)
  /\ Leave(ProcessOf[w], "Errors")
  /\ UNCHANGED <<logged, claim, errors>>

Exit(p) ==
  /\ stage[p] = "dispose"
  /\ \A w \in TasksOf(p) : at[w] \in {"open", "check"} \cup Over
  /\ GotoStage(p, "exited")
  /\ UNCHANGED <<vars, logged, claim, errors, code>>

KillProcess(p) ==
  /\ stage[p] \notin {"exited", "killed"}
  /\ \/ Kill(p)
     \/ (\A w \in TasksOf(p) : at[w] \in Over) /\ UNCHANGED vars
  /\ GotoStage(p, "killed")
  /\ UNCHANGED <<logged, claim, errors, code>>

-----------------------------------------------------------------------------

DriverNext ==
  \/ \E p \in Process :
       \/ NotACompiler(p) \/ NotParsed(p)
       \/ SkipArguments(p) \/ NewArguments(p) \/ ClaimArguments(p)
       \/ NoSourceFiles(p) \/ Compile(p) \/ UnhandledException(p) \/ Exit(p)
  \/ \E w \in Task :
       \/ OpenFile(w) \/ MissFile(w) \/ StartTask(w) \/ RunTask(w)
       \/ EndTask(w) \/ ThrowTask(w) \/ LogPerformance(w) \/ NoCompilationEntity(w)
  \/ \E p \in Killable : KillProcess(p)

DriverSpec == DriverInit /\ [][DriverNext]_allVars

-----------------------------------------------------------------------------
(* Properties.                                                             *)

\* The tasks of p have left their results in the trap folder.
IsExtracted(p) == \A w \in TasksOf(p) \ MoveFails : files[Main(w)] # None

\* "Ok: everything worked perfectly": when a process of the C# compiler returns
\* Ok, there is a trap file for each of its source files and assemblies.  If it
\* has skipped its command line, it may rely on the one that claimed it, unless
\* that one is still running, has been killed or has reported errors itself.
OkMeansExtracted ==
  \A p \in Process : stage[p] = "exited" /\ code[p] = "Ok" =>
    CASE claim[p] = "none"    -> p \in Unrecognized
      [] claim[p] = "claimed" -> IsExtracted(p)
      [] claim[p] = "skipped" ->
           \E q \in Process :
             /\ Args[q] = Args[p] /\ claim[q] = "claimed"
             /\ stage[q] = "exited" /\ code[q] = "Ok" => IsExtracted(p)

\* Whatever threads and exceptions there were, Ok is not returned if a file was
\* missing or if the extraction of a source file or of the compilation has
\* thrown.  (An exception in the extraction of an assembly goes unreported.)
ErrorsAreReported ==
  \A p \in Process : stage[p] = "exited" /\ code[p] = "Ok" =>
    \A w \in TasksOf(p) :
      /\ at[w] # "missing"
      /\ w \in failed => ~IsTree(w) /\ w \notin Last

-----------------------------------------------------------------------------
(* The inductive invariant.                                                *)

\* What LogRoslynArgs has returned, and the exit code, belong to a stage.
ClaimsFollowStages ==
  \A p \in Process :
    /\ stage[p] \in {"start", "move"} => claim[p] = "none" /\ code[p] = "none"
    /\ stage[p] \in {"read", "extract"} => claim[p] = "claimed" /\ code[p] = "none"
    /\ claim[p] = "none" /\ code[p] = "Ok" => p \in Unrecognized

\* Who finds a file of arguments owes it to a process that goes on: the first
\* of them is never told to skip.
IsClaimed(a) == \E q \in Process : Args[q] = a /\ claim[q] = "claimed"

SomebodyClaims ==
  /\ \A a \in logged : IsClaimed(a)
  /\ \A p \in Process : claim[p] = "skipped" => IsClaimed(Args[p])

\* Before the extraction no task has started, and none does without a claim.
TasksFollowStages ==
  \A w \in Task :
    LET s == stage[ProcessOf[w]] IN
    /\ s \in {"start", "move"} => at[w] \in {"open", "check"}
    /\ s = "read" => at[w] \in {"open", "check", "missing"}
    /\ w \in Last => at[w] \notin {"open", "missing", "archive", "replace", "upToDate"}
    /\ w \in Last /\ s = "extract" => at[w] \in {"check", "write"}
    /\ claim[ProcessOf[w]] # "claimed" => at[w] \in {"open", "check", "killed"}

\* The count of errors misses no file and no source file whose extraction threw.
ErrorsAreCounted ==
  \A w \in Task :
    /\ at[w] = "missing" => ProcessOf[w] \in errors
    /\ w \in failed /\ IsTree(w) => ProcessOf[w] \in errors
    /\ w \in failed /\ w \in Last => code[ProcessOf[w]] = "Errors"
    /\ w \in failed => claim[ProcessOf[w]] = "claimed"

\* A process that has claimed its command line and returns Ok has run its tasks.
OkIsEarned ==
  \A p \in Process :
    stage[p] \in {"dispose", "exited"} /\ claim[p] = "claimed" /\ code[p] = "Ok" =>
      /\ p \notin errors
      /\ \A w \in TasksOf(p) \ Last : at[w] \in Returned
      /\ \A w \in TasksOf(p) \cap Last :
           /\ at[w] \in {"publish", "move", "compare", "copy", "moveCopy", "drop", "ended"}
           /\ stage[p] = "exited" => at[w] = "ended"

DriverInv ==
  /\ DriverTypeOK /\ ClaimsFollowStages /\ SomebodyClaims /\ TasksFollowStages
  /\ ErrorsAreCounted /\ OkIsEarned

\* Processes with the same command line have the same files to extract.
SameCommandSameFiles ==
  \A p, q \in Process : Args[p] = Args[q] =>
    \A w \in TasksOf(p) \ MoveFails :
      \E v \in TasksOf(q) \ MoveFails : TrapFile[v] = TrapFile[w]
=============================================================================
