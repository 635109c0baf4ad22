---------------------------- MODULE Driver_proofs ----------------------------
(***************************************************************************)
(* What the exit code of an extractor process promises, for any number of  *)
(* processes, command lines and tasks.  Every step of the driver is a step *)
(* of TrapWriter or leaves its variables alone, so what TrapWriter_proofs  *)
(* proves of trap files holds under the driver as well; the inductive      *)
(* invariant here only relates the processes to their tasks.               *)
(***************************************************************************)
EXTENDS Driver, TrapWriter_proofs

LEMMA ProcessOfTasks ==
  /\ \A w \in Task : ProcessOf[w] \in Process /\ w \in TasksOf(ProcessOf[w])
  /\ \A p \in Process : \A w \in TasksOf(p) : w \in Task /\ ProcessOf[w] = p
BY DEF Process, TasksOf

LEMMA LastTasks == ASSUME NEW w \in Last PROVE w \in Task /\ ~IsTree(w) /\ w \notin UsesExisting
BY DriverAssumption, TrapWriterAssumption

-----------------------------------------------------------------------------
(* The steps of the driver are steps of TrapWriter.                        *)

LEMMA StepIsTrapStep == [DriverNext]_allVars => [Next]_vars
<1> SUFFICES ASSUME [DriverNext]_allVars PROVE [Next]_vars
  OBVIOUS
<1>1. CASE \E p \in Process :
             \/ NotACompiler(p) \/ NotParsed(p) \/ SkipArguments(p) \/ NewArguments(p)
             \/ ClaimArguments(p) \/ NoSourceFiles(p) \/ Compile(p) \/ UnhandledException(p)
             \/ Exit(p)
  BY <1>1 DEF NotACompiler, NotParsed, SkipArguments, NewArguments, ClaimArguments, NoSourceFiles,
     Compile, UnhandledException, Exit
<1>2. CASE \E w \in Task :
             \/ OpenFile(w) \/ MissFile(w) \/ StartTask(w) \/ RunTask(w) \/ EndTask(w)
             \/ ThrowTask(w) \/ LogPerformance(w) \/ NoCompilationEntity(w)
  <2>1. PICK w \in Task :
          \/ Open(w) \/ Miss(w) \/ Skip(w) \/ Begin(w) \/ DeleteArchived(w) \/ MoveToArchive(w)
          \/ Close(w) \/ Throw(w) \/ Publish(w) \/ Compare(w) \/ PublishCopy(w) \/ Drop(w)
    BY <1>2 DEF OpenFile, MissFile, StartTask, RunTask, EndTask, ThrowTask, LogPerformance,
       NoCompilationEntity
  <2>. QED
    BY <2>1 DEF Next
<1>3. CASE \E p \in Killable : KillProcess(p)
  BY <1>3 DEF KillProcess, Next
<1>4. CASE UNCHANGED allVars
  BY <1>4 DEF allVars
<1>. QED
  BY <1>1, <1>2, <1>3, <1>4 DEF DriverNext

-----------------------------------------------------------------------------
(* The invariant.                                                          *)

LEMMA DriverInitHasInv == DriverInit => DriverInv
<1> SUFFICES ASSUME DriverInit PROVE DriverInv
  OBVIOUS
<1>1. DriverTypeOK
  BY DEF DriverInit, DriverTypeOK
<1>2. ClaimsFollowStages /\ SomebodyClaims /\ OkIsEarned
  BY DEF DriverInit, ClaimsFollowStages, SomebodyClaims, OkIsEarned
<1>3. TasksFollowStages /\ ErrorsAreCounted
  BY ProcessOfTasks DEF DriverInit, Init, TasksFollowStages, ErrorsAreCounted
<1>. QED
  BY <1>1, <1>2, <1>3 DEF DriverInv

\* A step of p that leaves its tasks alone.
LEMMA ProcessKeepsInv ==
  ASSUME DriverInv, TypeOK, NEW p \in Process,
         \/ NotACompiler(p) \/ NotParsed(p) \/ SkipArguments(p) \/ NewArguments(p)
         \/ ClaimArguments(p) \/ NoSourceFiles(p) \/ Compile(p) \/ UnhandledException(p)
         \/ Exit(p)
  PROVE  DriverInv'
<1>1. /\ DriverTypeOK /\ ClaimsFollowStages /\ SomebodyClaims /\ TasksFollowStages
      /\ ErrorsAreCounted /\ OkIsEarned
  BY DEF DriverInv
<1>2. at' = at /\ failed' = failed
  BY DEF NotACompiler, NotParsed, SkipArguments, NewArguments, ClaimArguments, NoSourceFiles,
     Compile, UnhandledException, Exit, vars
<1>3. /\ \A q \in Process \ {p} : stage'[q] = stage[q] /\ claim'[q] = claim[q] /\ code'[q] = code[q]
      /\ errors \subseteq errors' /\ errors' \subseteq errors \cup {p}
  BY <1>1 DEF DriverTypeOK, NotACompiler, NotParsed, SkipArguments, NewArguments, ClaimArguments,
     NoSourceFiles, Compile, UnhandledException, Exit, Leave, GotoStage
<1>4. DriverTypeOK'
  BY <1>1 DEF DriverTypeOK, NotACompiler, NotParsed, SkipArguments, NewArguments, ClaimArguments,
     NoSourceFiles, Compile, UnhandledException, Exit, Leave, GotoStage
<1>5. ClaimsFollowStages'
  <2>1. /\ stage'[p] \in {"start", "move"} => claim'[p] = "none" /\ code'[p] = "none"
        /\ stage'[p] \in {"read", "extract"} => claim'[p] = "claimed" /\ code'[p] = "none"
        /\ claim'[p] = "none" /\ code'[p] = "Ok" => p \in Unrecognized
    BY <1>1 DEF DriverTypeOK, ClaimsFollowStages, NotACompiler, NotParsed, SkipArguments,
       NewArguments, ClaimArguments, NoSourceFiles, FilesAreRead, Compile, UnhandledException, Exit,
       Leave, GotoStage
  <2>. QED
    BY <1>1, <1>3, <2>1 DEF ClaimsFollowStages
<1>10. claim[p] = "claimed" => claim'[p] = "claimed"
  BY <1>1 DEF DriverTypeOK, ClaimsFollowStages, NotACompiler, NotParsed, SkipArguments,
     NewArguments, ClaimArguments, NoSourceFiles, Compile, UnhandledException, Exit
<1>6. SomebodyClaims'
  <2>2. ASSUME NEW a, IsClaimed(a) PROVE IsClaimed(a)'
    BY <1>3, <1>10, <2>2 DEF IsClaimed
  <2>3. CASE ClaimArguments(p)
    <3>1. claim'[p] = "claimed" /\ logged' \subseteq logged \cup {Args[p]}
      BY <1>1, <2>3 DEF DriverTypeOK, ClaimArguments
    <3>2. IsClaimed(Args[p])'
      BY <3>1 DEF IsClaimed
    <3>. QED
      BY <1>1, <1>3, <2>2, <3>1, <3>2 DEF SomebodyClaims
  <2>4. CASE ~ClaimArguments(p)
    <3>1. logged' = logged
      BY <2>4 DEF NotACompiler, NotParsed, SkipArguments, NewArguments, NoSourceFiles, Compile,
         UnhandledException, Exit
    <3>2. claim'[p] = "skipped" => IsClaimed(Args[p])
      BY <1>1, <2>4 DEF DriverTypeOK, SomebodyClaims, NotACompiler, NotParsed, SkipArguments,
         NewArguments, NoSourceFiles, Compile, UnhandledException, Exit
    <3>. QED
      BY <1>1, <1>3, <2>2, <3>1, <3>2 DEF SomebodyClaims
  <2>. QED
    BY <2>3, <2>4
<1>7. TasksFollowStages'
  <2>1. ASSUME NEW w \in Task, ProcessOf[w] = p
        PROVE  /\ stage'[p] \in {"start", "move"} => at[w] \in {"open", "check"}
               /\ stage'[p] = "read" => at[w] \in {"open", "check", "missing"}
               /\ w \in Last /\ stage'[p] = "extract" => at[w] \in {"check", "write"}
               /\ claim'[p] # "claimed" => at[w] \in {"open", "check", "killed"}
    BY <1>1, <1>10, <2>1, ProcessOfTasks DEF DriverTypeOK, TasksFollowStages, NotACompiler, NotParsed,
       SkipArguments, NewArguments, ClaimArguments, NoSourceFiles, FilesAreRead, Compile,
       UnhandledException, Exit, Leave, GotoStage
  <2>. QED
    BY <1>1, <1>2, <1>3, <2>1, ProcessOfTasks DEF TasksFollowStages
<1>8. ErrorsAreCounted'
  <2>1. code[p] = "Errors" => code'[p] = "Errors"
    BY <1>1 DEF DriverTypeOK, ClaimsFollowStages, NotACompiler, NotParsed, SkipArguments,
       NewArguments, ClaimArguments, NoSourceFiles, FilesAreRead, Compile, UnhandledException, Exit,
       Leave
  <2>. QED
    BY <1>1, <1>2, <1>3, <1>10, <2>1, ProcessOfTasks DEF ErrorsAreCounted
<1>9. OkIsEarned'
  <2>1. ~Exit(p) => code'[p] # "Ok" \/ claim'[p] # "claimed"
    BY <1>1 DEF DriverTypeOK, ClaimsFollowStages, NotACompiler, NotParsed, SkipArguments,
       NewArguments, ClaimArguments, NoSourceFiles, FilesAreRead, Compile, UnhandledException, Leave
  <2>2. CASE Exit(p)
    <3>1. /\ stage[p] = "dispose" /\ claim' = claim /\ code' = code /\ errors' = errors
          /\ \A w \in TasksOf(p) : at[w] \in {"open", "check"} \cup Over
      BY <2>2 DEF Exit
    <3>2. \A w \in TasksOf(p) :
            at[w] \in {"publish", "move", "compare", "copy", "moveCopy", "drop", "ended"}
              => at[w] = "ended"
      BY <3>1 DEF Over, Returned
    <3>. QED
      BY <1>1, <1>2, <1>3, <3>1, <3>2 DEF OkIsEarned
  <2>. QED
    BY <1>1, <1>2, <1>3, <2>1, <2>2 DEF OkIsEarned
<1>. QED
  BY <1>4, <1>5, <1>6, <1>7, <1>8, <1>9 DEF DriverInv

\* A step of a task, while its process waits for it.
LEMMA TaskKeepsDriverInv ==
  ASSUME DriverInv, TypeOK, NEW w \in Task,
         OpenFile(w) \/ MissFile(w) \/ StartTask(w) \/ RunTask(w) \/ EndTask(w) \/ ThrowTask(w)
  PROVE  DriverInv'
<1>. DEFINE p == ProcessOf[w]
<1>1. /\ DriverTypeOK /\ ClaimsFollowStages /\ SomebodyClaims /\ TasksFollowStages
      /\ ErrorsAreCounted /\ OkIsEarned
  BY DEF DriverInv
<1>2. p \in Process /\ w \in TasksOf(p)
  BY ProcessOfTasks
<1>3. UNCHANGED <<stage, logged, claim, code>>
  BY DEF OpenFile, MissFile, StartTask, RunTask, EndTask, ThrowTask, driverVars
<1>4. PICK place : Goto(w, place)
  BY DEF OpenFile, MissFile, StartTask, RunTask, EndTask, ThrowTask, Open, Miss, Skip, Begin,
     DeleteArchived, MoveToArchive, Close, Throw, Publish, Compare, PublishCopy, TryMove, Drop
<1>5. at'[w] = place /\ \A v \in Task \ {w} : at'[v] = at[v]
  BY <1>4, OthersStay
<1>6. /\ errors \subseteq errors' /\ errors' \subseteq errors \cup {p}
      /\ errors' # errors => MissFile(w) \/ EndTask(w) \/ ThrowTask(w)
  <2>1. CASE OpenFile(w) \/ StartTask(w) \/ RunTask(w)
    <3>1. errors' = errors
      BY <2>1 DEF OpenFile, StartTask, RunTask, driverVars
    <3>. QED
      BY <3>1
  <2>2. CASE MissFile(w) \/ EndTask(w) \/ ThrowTask(w)
    <3>1. errors' = errors \/ errors' = errors \cup {p}
      BY <2>2 DEF MissFile, EndTask, ThrowTask
    <3>. QED
      BY <2>2, <3>1
  <2>. QED
    BY <2>1, <2>2
<1>7. failed' = failed \/ (failed' = failed \cup {w} /\ ThrowTask(w))
  BY DEF OpenFile, MissFile, StartTask, RunTask, EndTask, ThrowTask, Open, Miss, Skip, Begin,
     DeleteArchived, MoveToArchive, Close, Throw, Publish, Compare, PublishCopy, Drop
<1>8. /\ OpenFile(w) => at[w] = "open" /\ at'[w] = "check" /\ stage[p] = "read"
      /\ MissFile(w) => at[w] = "open" /\ at'[w] = "missing" /\ stage[p] = "read"
      /\ StartTask(w) => /\ at[w] = "check" /\ stage[p] = "extract"
                         /\ at'[w] \in {"upToDate", "archive", "write"}
                         /\ w \in Last => at'[w] = "write"
  BY <1>4, <1>5, LastTasks DEF OpenFile, MissFile, StartTask, Open, Miss, Skip, UpToDate, Begin, IsTree, Goto,
     TypeOK
<1>9. /\ EndTask(w) => at[w] = "write" /\ w \notin Last
      /\ ThrowTask(w) => at[w] \in {"archive", "write"} /\ w \notin Last
      /\ EndTask(w) \/ ThrowTask(w) => at'[w] = "publish"
  BY DEF EndTask, ThrowTask, Close, Throw, Goto, TypeOK
<1>10. RunTask(w) =>
         /\ at[w] \in {"archive", "replace", "publish", "move", "compare", "copy", "moveCopy", "drop"}
         /\ at'[w] \in {"replace", "write", "move", "compare", "copy", "moveCopy", "drop", "ended"}
         /\ at'[w] \in {"replace", "write"} => at[w] \in {"archive", "replace"}
  BY DEF RunTask, DeleteArchived, MoveToArchive, Publish, Compare, PublishCopy, TryMove, Drop, Goto,
     TypeOK
<1>11. DriverTypeOK' /\ ClaimsFollowStages'
  BY <1>1, <1>2, <1>3, <1>6 DEF DriverTypeOK, ClaimsFollowStages
<1>12. SomebodyClaims'
  BY <1>1, <1>3 DEF SomebodyClaims, IsClaimed
<1>13. TasksFollowStages'
  <2>1. /\ stage[p] \notin {"start", "move"}
        /\ stage[p] = "read" => at'[w] \in {"open", "check", "missing"}
        /\ w \in Last => at'[w] \notin {"open", "missing", "archive", "replace", "upToDate"}
        /\ w \in Last /\ stage[p] = "extract" => at'[w] \in {"check", "write"}
        /\ claim[p] # "claimed" => at'[w] \in {"open", "check", "killed"}
    BY <1>1, <1>2, <1>8, <1>9, <1>10 DEF TasksFollowStages, ClaimsFollowStages
  <2>. QED
    BY <1>1, <1>3, <1>5, <2>1 DEF TasksFollowStages
<1>14. ErrorsAreCounted'
  <2>1. at'[w] = "missing" => p \in errors'
    BY <1>8, <1>9, <1>10 DEF MissFile
  <2>2. ThrowTask(w) => w \notin Last /\ (IsTree(w) => p \in errors') /\ claim[p] = "claimed"
    BY <1>1, <1>9 DEF ThrowTask, TasksFollowStages
  <2>. QED
    BY <1>1, <1>3, <1>5, <1>6, <1>7, <2>1, <2>2 DEF ErrorsAreCounted
<1>15. OkIsEarned'
  <2>1. ASSUME stage[p] \in {"dispose", "exited"}, claim[p] = "claimed", code[p] = "Ok"
        PROVE  /\ w \in Last /\ RunTask(w) /\ stage[p] = "dispose"
               /\ at'[w] \in {"move", "compare", "copy", "moveCopy", "drop", "ended"}
    <3>1. w \notin Last => at[w] \in Returned
      BY <1>1, <1>2, <2>1 DEF OkIsEarned
    <3>2. at[w] \notin Returned
      BY <1>8, <1>9, <1>10 DEF Returned
    <3>3. /\ at[w] \in {"publish", "move", "compare", "copy", "moveCopy", "drop", "ended"}
          /\ stage[p] = "exited" => at[w] = "ended"
      BY <1>1, <1>2, <2>1, <3>1, <3>2 DEF OkIsEarned
    <3>. QED
      BY <1>8, <1>9, <1>10, <2>1, <3>1, <3>2, <3>3
  <2>2. ASSUME NEW q \in Process, stage[q] \in {"dispose", "exited"}, claim[q] = "claimed",
               code[q] = "Ok"
        PROVE  /\ q \notin errors'
               /\ \A v \in TasksOf(q) \ Last : at'[v] \in Returned
               /\ \A v \in TasksOf(q) \cap Last :
                    /\ at'[v] \in {"publish", "move", "compare", "copy", "moveCopy", "drop", "ended"}
                    /\ stage[q] = "exited" => at'[v] = "ended"
    <3>1. /\ q \notin errors
          /\ \A v \in TasksOf(q) \ Last : at[v] \in Returned
          /\ \A v \in TasksOf(q) \cap Last :
               /\ at[v] \in {"publish", "move", "compare", "copy", "moveCopy", "drop", "ended"}
               /\ stage[q] = "exited" => at[v] = "ended"
      BY <1>1, <2>2 DEF OkIsEarned
    <3>2. CASE q = p
      <4>1. errors' = errors
        BY <1>6, <1>8, <1>9, <1>10, <2>1, <2>2, <3>2
      <4>. QED
        BY <1>5, <2>1, <2>2, <3>1, <3>2, <4>1, ProcessOfTasks
    <3>3. CASE q # p
      BY <1>5, <1>6, <3>1, <3>3, ProcessOfTasks
    <3>. QED
      BY <3>2, <3>3
  <2>. QED
    BY <1>3, <2>2 DEF OkIsEarned
<1>. QED
  BY <1>11, <1>12, <1>13, <1>14, <1>15 DEF DriverInv

\* The step after all tasks: it decides on the exit code.
LEMMA EndKeepsInv ==
  ASSUME DriverInv, TypeOK, NEW w \in Task, LogPerformance(w) \/ NoCompilationEntity(w)
  PROVE  DriverInv'
<1>. DEFINE p == ProcessOf[w]
<1>1. /\ DriverTypeOK /\ ClaimsFollowStages /\ SomebodyClaims /\ TasksFollowStages
      /\ ErrorsAreCounted /\ OkIsEarned
  BY DEF DriverInv
<1>2. p \in Process /\ w \in TasksOf(p) /\ w \in Last /\ ~IsTree(w)
  BY ProcessOfTasks, LastTasks DEF LogPerformance, NoCompilationEntity
<1>3. /\ stage[p] = "extract" /\ claim[p] = "claimed" /\ code[p] = "none"
      /\ UNCHANGED <<logged, claim, errors>>
  BY <1>1, <1>2 DEF ClaimsFollowStages, LogPerformance, NoCompilationEntity
<1>4. Goto(w, "publish") /\ MayClose(w)
  BY DEF LogPerformance, NoCompilationEntity, Close, Throw
<1>5. at'[w] = "publish" /\ \A v \in Task \ {w} : at'[v] = at[v]
  BY <1>4, OthersStay
<1>6. /\ \/ code' = [code EXCEPT ![p] = IF p \in errors THEN "Errors" ELSE "Ok"] /\ failed' = failed
         \/ code' = [code EXCEPT ![p] = "Errors"] /\ failed' = failed \cup {w}
      /\ stage' = [stage EXCEPT ![p] = "dispose"]
  BY DEF LogPerformance, NoCompilationEntity, Close, Throw, Leave, GotoStage
<1>7. /\ \A q \in Process \ {p} : stage'[q] = stage[q] /\ code'[q] = code[q]
      /\ stage'[p] = "dispose"
      /\ \/ code'[p] = "Errors" /\ failed' = failed \cup {w}
         \/ code'[p] \in {"Ok", "Errors"} /\ failed' = failed /\ (code'[p] = "Ok" => p \notin errors)
  BY <1>1, <1>2, <1>6 DEF DriverTypeOK
<1>8. DriverTypeOK'
  BY <1>1, <1>2, <1>3, <1>6 DEF DriverTypeOK
<1>9. ClaimsFollowStages' /\ SomebodyClaims'
  <2>1. SomebodyClaims'
    BY <1>1, <1>3 DEF SomebodyClaims, IsClaimed
  <2>2. claim'[p] = "claimed" /\ \A q \in Process : claim'[q] = claim[q]
    BY <1>3
  <2>3. ClaimsFollowStages'
    <3> SUFFICES ASSUME NEW q \in Process
                 PROVE  /\ stage'[q] \in {"start", "move"} => claim'[q] = "none" /\ code'[q] = "none"
                        /\ stage'[q] \in {"read", "extract"} => claim'[q] = "claimed" /\ code'[q] = "none"
                        /\ claim'[q] = "none" /\ code'[q] = "Ok" => q \in Unrecognized
      BY DEF ClaimsFollowStages
    <3>1. CASE q = p
      BY <1>7, <2>2, <3>1
    <3>2. CASE q # p
      BY <1>1, <1>7, <2>2, <3>2 DEF ClaimsFollowStages
    <3>. QED
      BY <3>1, <3>2
  <2>. QED
    BY <2>1, <2>3
<1>10. TasksFollowStages'
  BY <1>1, <1>2, <1>3, <1>5, <1>7, ProcessOfTasks DEF TasksFollowStages
<1>11. ErrorsAreCounted'
  <2>1. ASSUME NEW v \in Task, v \in failed, v \in Last PROVE ProcessOf[v] # p
    BY <1>1, <1>3, <2>1 DEF ErrorsAreCounted
  <2>. QED
    BY <1>1, <1>2, <1>3, <1>5, <1>7, <2>1, ProcessOfTasks DEF ErrorsAreCounted
<1>12. OkIsEarned'
  <2>1. ASSUME NEW v \in TasksOf(p) \ Last, p \notin errors PROVE at'[v] \in Returned
    <3>1. v \in Task /\ v # w /\ ProcessOf[v] = p
      BY <1>2, <2>1, ProcessOfTasks
    <3>2. at[v] \in Over /\ at[v] # "missing"
      BY <1>1, <1>2, <1>4, <2>1, <3>1 DEF MayClose, ErrorsAreCounted
    <3>. QED
      BY <1>5, <3>1, <3>2 DEF Over
  <2>2. ASSUME NEW v \in TasksOf(p) \cap Last PROVE v = w
    BY <1>2, <2>2, DriverAssumption
  <2>3. ASSUME NEW q \in Process \ {p}, NEW v \in TasksOf(q) PROVE at'[v] = at[v]
    BY <1>2, <1>5, <2>3, ProcessOfTasks
  <2>. QED
    BY <1>1, <1>2, <1>3, <1>5, <1>7, <2>1, <2>2, <2>3 DEF OkIsEarned
<1>. QED
  BY <1>8, <1>9, <1>10, <1>11, <1>12 DEF DriverInv

LEMMA KillKeepsDriverInv ==
  ASSUME DriverInv, TypeOK, NEW p \in Killable, KillProcess(p)
  PROVE  DriverInv'
<1>1. /\ DriverTypeOK /\ ClaimsFollowStages /\ SomebodyClaims /\ TasksFollowStages
      /\ ErrorsAreCounted /\ OkIsEarned
  BY DEF DriverInv
<1>2. p \in Process
  BY TrapWriterAssumption
<1>3. /\ \A v \in Task : at'[v] = at[v] \/ (at'[v] = "killed" /\ ProcessOf[v] = p)
      /\ UNCHANGED <<failed, logged, claim, errors, code>>
  BY DEF KillProcess, Kill, vars
<1>4. stage' = [stage EXCEPT ![p] = "killed"]
  BY DEF KillProcess, GotoStage
<1>5. stage'[p] = "killed" /\ \A q \in Process \ {p} : stage'[q] = stage[q]
  BY <1>1, <1>2, <1>4 DEF DriverTypeOK
<1>6. DriverTypeOK' /\ ClaimsFollowStages' /\ SomebodyClaims'
  BY <1>1, <1>2, <1>3, <1>4, <1>5 DEF DriverTypeOK, ClaimsFollowStages, SomebodyClaims, IsClaimed
<1>7. TasksFollowStages' /\ ErrorsAreCounted'
  BY <1>1, <1>3, <1>5, ProcessOfTasks DEF TasksFollowStages, ErrorsAreCounted
<1>8. OkIsEarned'
  BY <1>1, <1>3, <1>5, ProcessOfTasks DEF OkIsEarned
<1>. QED
  BY <1>6, <1>7, <1>8 DEF DriverInv

LEMMA DriverStepKeepsInv ==
  ASSUME DriverInv, TypeOK, [DriverNext]_allVars
  PROVE  DriverInv'
<1>1. CASE \E p \in Process :
             \/ NotACompiler(p) \/ NotParsed(p) \/ SkipArguments(p) \/ NewArguments(p)
             \/ ClaimArguments(p) \/ NoSourceFiles(p) \/ Compile(p) \/ UnhandledException(p)
             \/ Exit(p)
  BY <1>1, ProcessKeepsInv
<1>2. CASE \E w \in Task : \/ OpenFile(w) \/ MissFile(w) \/ StartTask(w) \/ RunTask(w)
                           \/ EndTask(w) \/ ThrowTask(w)
  BY <1>2, TaskKeepsDriverInv
<1>3. CASE \E w \in Task : LogPerformance(w) \/ NoCompilationEntity(w)
  BY <1>3, EndKeepsInv
<1>4. CASE \E p \in Killable : KillProcess(p)
  BY <1>4, KillKeepsDriverInv
<1>5. CASE UNCHANGED allVars
  BY <1>5 DEF allVars, vars, driverVars, DriverInv, DriverTypeOK, ClaimsFollowStages, SomebodyClaims,
     IsClaimed, TasksFollowStages, ErrorsAreCounted, OkIsEarned
<1>. QED
  BY <1>1, <1>2, <1>3, <1>4, <1>5 DEF DriverNext

-----------------------------------------------------------------------------
(* Theorems.                                                               *)

\* The tasks of the processes behave as TrapWriter says: the driver, with its
\* claims, counts and exit codes, only restricts when they start and end.
THEOREM DriverRunsTasks == DriverSpec => Spec
<1>1. DriverInit => Init
  BY DEF DriverInit
<1>. QED
  BY <1>1, StepIsTrapStep, PTL DEF DriverSpec, Spec

\* The invariant holds in every reachable state.
THEOREM DriverInvariant == DriverSpec => [](TrapInv /\ DriverInv)
<1>1. TrapInv => TypeOK
  BY DEF TrapInv
<1>2. DriverInv /\ TypeOK /\ [DriverNext]_allVars => DriverInv'
  BY DriverStepKeepsInv
<1>3. DriverSpec => []TypeOK
  BY <1>1, DriverRunsTasks, Invariant, PTL
<1>. QED
  BY <1>2, <1>3, DriverInitHasInv, DriverRunsTasks, Invariant, PTL DEF DriverSpec

\* No trap file is torn and no result lost under the driver, either.
THEOREM DriverKeepsResults == DriverSpec => [](PublishedIsWhole /\ NothingIsLost)
  BY DriverRunsTasks, TrapFilesAreWhole, ResultsAreKept, PTL

\* Ok is not returned if a file was missing, or if the extraction of a source
\* file or of the compilation has thrown.
THEOREM NoErrorIsLost == DriverSpec => []ErrorsAreReported
<1>1. DriverInv => ErrorsAreReported
  <2> SUFFICES ASSUME DriverInv, NEW p \in Process, stage[p] = "exited", code[p] = "Ok",
                      NEW w \in TasksOf(p)
               PROVE  at[w] # "missing" /\ (w \in failed => ~IsTree(w) /\ w \notin Last)
    BY DEF ErrorsAreReported
  <2>1. w \in Task /\ ProcessOf[w] = p
    BY ProcessOfTasks
  <2>2. CASE claim[p] = "claimed"
    <3>1. p \notin errors
      BY <2>2 DEF DriverInv, OkIsEarned
    <3>. QED
      BY <2>1, <3>1 DEF DriverInv, ErrorsAreCounted
  <2>3. CASE claim[p] # "claimed"
    BY <2>1, <2>3 DEF DriverInv, TasksFollowStages, ErrorsAreCounted
  <2>. QED
    BY <2>2, <2>3
<1>. QED
  BY <1>1, DriverInvariant, PTL

\* If the same command line always means the same files, a process that returns
\* Ok leaves a trap file of every file of its own, or a process that claimed
\* its command line answers for them.
THEOREM OkIsPerfect ==
  ASSUME SameCommandSameFiles
  PROVE  DriverSpec => []OkMeansExtracted
<1>1. ASSUME TrapInv, DriverInv, NEW p \in Process, stage[p] = "exited", code[p] = "Ok",
             claim[p] = "claimed"
      PROVE  IsExtracted(p)
  <2>1. ASSUME NEW w \in TasksOf(p) PROVE at[w] \in Returned
    BY <1>1, <2>1 DEF DriverInv, OkIsEarned, Returned
  <2>. QED
    BY <1>1, <2>1, ProcessOfTasks DEF IsExtracted, TrapInv, MainIsThere, Returned
<1>2. ASSUME NEW p \in Process, NEW q \in Process, Args[q] = Args[p], IsExtracted(q)
      PROVE  IsExtracted(p)
  <2>1. ASSUME NEW w \in TasksOf(p) \ MoveFails PROVE files[Main(w)] # None
    <3>1. PICK v \in TasksOf(q) \ MoveFails : TrapFile[v] = TrapFile[w]
      BY <1>2, <2>1 DEF SameCommandSameFiles
    <3>. QED
      BY <1>2, <3>1 DEF IsExtracted, Main
  <2>. QED
    BY <2>1 DEF IsExtracted
<1>3. TrapInv /\ DriverInv => OkMeansExtracted
  <2> SUFFICES ASSUME TrapInv, DriverInv, NEW p \in Process, stage[p] = "exited", code[p] = "Ok"
               PROVE  CASE claim[p] = "none"    -> p \in Unrecognized
                        [] claim[p] = "claimed" -> IsExtracted(p)
                        [] claim[p] = "skipped" ->
                             \E q \in Process :
                               /\ Args[q] = Args[p] /\ claim[q] = "claimed"
                               /\ stage[q] = "exited" /\ code[q] = "Ok" => IsExtracted(p)
    BY DEF OkMeansExtracted
  <2>1. CASE claim[p] = "none"
    BY <2>1 DEF DriverInv, ClaimsFollowStages
  <2>2. CASE claim[p] = "claimed"
    BY <1>1, <2>2
  <2>3. CASE claim[p] = "skipped"
    <3>1. PICK q \in Process : Args[q] = Args[p] /\ claim[q] = "claimed"
      BY <2>3 DEF DriverInv, SomebodyClaims, IsClaimed
    <3>2. stage[q] = "exited" /\ code[q] = "Ok" => IsExtracted(p)
      BY <1>1, <1>2, <3>1
    <3>. QED
      BY <2>3, <3>1, <3>2
  <2>4. claim[p] \in {"none", "claimed", "skipped"}
    BY DEF DriverInv, DriverTypeOK
  <2>. QED
    BY <2>1, <2>2, <2>3, <2>4
<1>. QED
  BY <1>3, DriverInvariant, PTL
=============================================================================
