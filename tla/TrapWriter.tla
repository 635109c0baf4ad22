----------------------------- MODULE TrapWriter -----------------------------
(***************************************************************************)
(* Trap files and the source archive of the C# extractor.  The build runs  *)
(* one extractor process for each call of the compiler, many of them at    *)
(* once, and each runs its extraction tasks in parallel.  Tasks of several *)
(* processes extract the same source file, or the same referenced          *)
(* assembly, and nothing but the file system tells them of each other.     *)
(*                                                                         *)
(* A task writes its tuples to a temporary file of its own.  Disposing of  *)
(* its TrapWriter gives that file its final name, or a second name beside  *)
(* it, or deletes it.                                                      *)
(***************************************************************************)
CONSTANTS
  Task,               \* one TrapWriter each
  ProcessOf,          \* [Task -> the process that runs it]
  TrapFile,           \* [Task -> the trap file it should write]
  Output,             \* [Task -> what its whole extraction writes]
  Source,             \* [Task -> the source file it archives, or None]
  DiscardDuplicates,  \* tasks for assemblies
  UsesExisting,       \* tasks that leave an existing trap file alone (--cache, --fast)
  Last,               \* compilationTrapFile: disposed of with the Analyser
  Missing,            \* tasks whose file may be missing
  Throws,             \* tasks whose extraction may throw
  MoveFails,          \* tasks whose moves may fail although the name is free
  Killable,           \* processes that may be killed
  None,
  Partial             \* what a file holds whose extraction was cut short

VARIABLES
  at,       \* where the task is
  temp,     \* its temporary file
  files,    \* the trap folder
  archive,  \* the source files that have a copy in the source archive
  failed    \* tasks whose extraction threw (history)

vars == <<at, temp, files, archive, failed>>

Process == {ProcessOf[w] : w \in Task}
Sources == {Source[w] : w \in Task} \ {None}
Content == {Output[w] : w \in Task} \cup {Partial}

\* A name in the trap folder: the trap file, and the hash when it is a second one.
Name == {TrapFile[w] : w \in Task} \X (Content \cup {None})

ASSUME TrapWriterAssumption ==
  /\ DiscardDuplicates \cup UsesExisting \cup Last \subseteq Task
  /\ Missing \cup Throws \cup MoveFails \subseteq Task
  /\ Last \cap UsesExisting = {}
  /\ None \notin Content
  /\ Killable \subseteq Process

\* "open" is before the compilation: the source file is to be parsed, or the
\* assembly to be found.  "archive" and "replace" are in the middle of the
\* extraction; from "publish" to "drop" the task is in Dispose.
Place == {"open", "missing", "check", "archive", "replace", "write", "publish", "move",
          "compare", "copy", "moveCopy", "drop", "upToDate", "ended", "killed"}

Returned == {"upToDate", "ended"}

Over == Returned \cup {"missing"}

TypeOK ==
  /\ at \in [Task -> Place]
  /\ temp \in [Task -> Content \cup {None}]
  /\ files \in [Name -> Content \cup {None}]
  /\ archive \subseteq Sources
  /\ failed \subseteq Task

Init ==
  /\ at = [w \in Task |-> IF w \in Last THEN "check" ELSE "open"]
  /\ temp = [w \in Task |-> None]
  /\ files = [n \in Name |-> None]
  /\ archive = {}
  /\ failed = {}

Goto(w, place) == at' = [at EXCEPT ![w] = place]

Main(w) == <<TrapFile[w], None>>

\* The name for a second trap file: the hash stands for the contents.
Copy(w) == <<TrapFile[w], temp[w]>>

-----------------------------------------------------------------------------
(* The file: ReadSyntaxTrees, ResolveReferences.                           *)

Open(w) ==
  /\ at[w] = "open"
  /\ Goto(w, "check")
  /\ UNCHANGED <<temp, files, archive, failed>>

\* There will be no task for it.
Miss(w) ==
  /\ at[w] = "open" /\ w \in Missing
  /\ Goto(w, "missing")
  /\ UNCHANGED <<temp, files, archive, failed>>

-----------------------------------------------------------------------------
(* The task: DoExtractTree, DoAnalyseAssembly, ExtractCIL.                 *)

UpToDate(w) == w \in UsesExisting /\ files[Main(w)] # None

Skip(w) ==
  /\ at[w] = "check" /\ UpToDate(w)
  /\ Goto(w, "upToDate")
  /\ UNCHANGED <<temp, files, archive, failed>>

\* The first tuple opens the temporary file.
Begin(w) ==
  /\ at[w] = "check" /\ ~UpToDate(w)
  /\ temp' = [temp EXCEPT ![w] = Partial]
  /\ Goto(w, IF Source[w] = None THEN "write" ELSE "archive")
  /\ UNCHANGED <<files, archive, failed>>

\* ArchiveContents and MoveOrReplace: the old copy is deleted first.
DeleteArchived(w) ==
  /\ at[w] = "archive"
  /\ archive' = archive \ {Source[w]}
  /\ Goto(w, "replace")
  /\ UNCHANGED <<temp, files, failed>>

\* Mutant: after a failed move the copy is cleaned up, not the file to be moved.
MoveToArchive_Cleans(w) ==
  /\ at[w] = "replace"
  /\ archive' = IF Source[w] \in archive THEN archive \ {Source[w]} ELSE archive \cup {Source[w]}
  /\ Goto(w, "write")
  /\ UNCHANGED <<temp, files, failed>>

\* If another task has put its copy there meanwhile the move throws, which is
\* only logged; the copy is there all the same.
MoveToArchive(w) ==
  /\ at[w] = "replace"
  /\ archive' = archive \cup {Source[w]}
  /\ Goto(w, "write")
  /\ UNCHANGED <<temp, files, failed>>

\* The trap file of the compilation is disposed of after all tasks have run.
MayClose(w) ==
  w \in Last => \A v \in Task \ {w} : ProcessOf[v] = ProcessOf[w] => at[v] \in Over

\* Mutant: the file is moved before it is closed.
Close_Unflushed(w) ==
  /\ at[w] = "write" /\ MayClose(w)
  /\ Goto(w, "publish")
  /\ UNCHANGED <<temp, files, archive, failed>>

\* The extraction is complete and Dispose has closed the temporary file.
Close(w) ==
  /\ at[w] = "write" /\ MayClose(w)
  /\ temp' = [temp EXCEPT ![w] = Output[w]]
  /\ Goto(w, "publish")
  /\ UNCHANGED <<files, archive, failed>>

\* After an exception the using statement disposes of the TrapWriter as well.
Throw(w) ==
  /\ at[w] \in {"archive", "write"} /\ w \in Throws /\ MayClose(w)
  /\ failed' = failed \cup {w}
  /\ Goto(w, "publish")
  /\ UNCHANGED <<temp, files, archive>>

-----------------------------------------------------------------------------
(* Dispose.                                                                *)

\* Mutant: a move that replaces what is there.
TryMove_Replaces(w, check, move, dest, otherwise) ==
  \/ /\ at[w] = check /\ files[dest] = None
     /\ Goto(w, move)
     /\ UNCHANGED <<temp, files>>
  \/ /\ at[w] = move
     /\ files' = [files EXCEPT ![dest] = temp[w]]
     /\ temp' = [temp EXCEPT ![w] = None]
     /\ Goto(w, "ended")
  \/ /\ at[w] = check /\ files[dest] # None
     /\ Goto(w, otherwise)
     /\ UNCHANGED <<temp, files>>

\* Exists and Move are two steps, but Move fails if the name has been taken.
TryMove(w, check, move, dest, otherwise) ==
  \/ /\ at[w] = check /\ files[dest] = None
     /\ Goto(w, move)
     /\ UNCHANGED <<temp, files>>
  \/ /\ at[w] = move /\ files[dest] = None
     /\ files' = [files EXCEPT ![dest] = temp[w]]
     /\ temp' = [temp EXCEPT ![w] = None]
     /\ Goto(w, "ended")
  \/ /\ \/ at[w] \in {check, move} /\ files[dest] # None
        \/ at[w] = move /\ w \in MoveFails
     /\ Goto(w, otherwise)
     /\ UNCHANGED <<temp, files>>

Publish(w) ==
  /\ TryMove(w, "publish", "move", Main(w),
             IF w \in DiscardDuplicates THEN "drop" ELSE "compare")
  /\ UNCHANGED <<archive, failed>>

\* Mutant: what is there is taken to be identical.
Compare_Identical(w) ==
  /\ at[w] = "compare"
  /\ Goto(w, IF files[Main(w)] = None THEN "ended" ELSE "drop")
  /\ UNCHANGED <<temp, files, archive, failed>>

\* The two hashes.  If the first move failed for another reason there is no
\* file to compare with: the exception is logged and the temporary file stays.
Compare(w) ==
  /\ at[w] = "compare"
  /\ Goto(w, IF files[Main(w)] = None THEN "ended"
             ELSE IF files[Main(w)] = temp[w] THEN "drop" ELSE "copy")
  /\ UNCHANGED <<temp, files, archive, failed>>

PublishCopy(w) ==
  /\ TryMove(w, "copy", "moveCopy", Copy(w), "drop")
  /\ UNCHANGED <<archive, failed>>

Drop(w) ==
  /\ at[w] = "drop"
  /\ temp' = [temp EXCEPT ![w] = None]
  /\ Goto(w, "ended")
  /\ UNCHANGED <<files, archive, failed>>

\* The build or the user kills a process between any two steps.
Kill(p) ==
  /\ \E w \in Task : ProcessOf[w] = p /\ at[w] \notin Over \cup {"killed"}
  /\ at' = [w \in Task |-> IF ProcessOf[w] = p /\ at[w] \notin Over
                             THEN "killed" ELSE at[w]]
  /\ UNCHANGED <<temp, files, archive, failed>>

Next ==
  \/ \E w \in Task :
       \/ Open(w) \/ Miss(w) \/ Skip(w) \/ Begin(w) \/ DeleteArchived(w) \/ MoveToArchive(w)
       \/ Close(w) \/ Throw(w)
       \/ Publish(w) \/ Compare(w) \/ PublishCopy(w) \/ Drop(w)
  \/ \E p \in Killable : Kill(p)

Spec == Init /\ [][Next]_vars

-----------------------------------------------------------------------------
(* Properties.                                                             *)

Written(w) == IF w \in failed THEN Partial ELSE Output[w]

\* Whatever is in the trap folder is all that some task of that trap file has
\* written, and it has a cut in it only if that task's extraction threw:
\* killing processes does not tear a trap file.
PublishedIsWhole ==
  \A n \in Name : files[n] # None =>
    \E w \in Task : /\ TrapFile[w] = n[1] /\ at[w] = "ended"
                    /\ files[n] = Written(w)

\* A trap file that is there is never replaced, whoever finishes later: "only
\* the existing file is kept" or the new one sits alongside it (Dispose).  A
\* comment of Analyser.cs says the opposite, see LastOneWins.
PublishedStays ==
  [][\A n \in Name : files[n] # None => files'[n] = files[n]]_files

\* Analyser.cs:272, of a trap file that parallel invocations of the extractor
\* generate concurrently: "then last one wins" and "the output should still be
\* correct".  When the task of an assembly has extracted it all and has been
\* disposed of, the trap file is what it has written.
LastOneWins ==
  [][\A w \in DiscardDuplicates \ (MoveFails \cup failed) :
       at[w] # "ended" /\ at'[w] = "ended" => files'[Main(w)] = Output[w]]_vars

\* What w has written is in the trap folder under one of its names.
IsPublished(w) == \E n \in Name : n[1] = TrapFile[w] /\ files[n] = Written(w)

\* A task that has returned has left nothing behind in the trap folder but
\* results: its own, under one of the names, or for an assembly somebody's.
NothingIsLost ==
  \A w \in Task \ MoveFails : at[w] \in Returned =>
    /\ temp[w] = None
    /\ files[Main(w)] # None
    /\ at[w] = "ended" /\ w \notin DiscardDuplicates
         => IsPublished(w)

\* A source file that a task has archived is in the archive, unless some task
\* is just replacing the copy, or has been killed while it did (MoveOrReplace,
\* whose two steps are not the "atomic moves" that a comment of Analyser.cs
\* speaks of; FileUtils.cs admits the race).
HasArchived(w) ==
  /\ Source[w] # None /\ w \notin failed
  /\ at[w] \in {"write", "publish", "move", "compare", "copy", "moveCopy", "drop", "ended"}

ArchiveIsKept ==
  \A w \in Task : HasArchived(w) =>
    \/ Source[w] \in archive
    \/ \E v \in Task : Source[v] = Source[w] /\ at[v] \in {"replace", "killed"}

-----------------------------------------------------------------------------
(* The inductive invariant.                                                *)

\* Assemblies are not archived.
OnlySourcesAreArchived ==
  \A w \in Task : at[w] \in {"archive", "replace"} => Source[w] # None

\* The temporary file holds what is to be published when Dispose moves it.
TempIsWritten ==
  \A w \in Task :
    /\ at[w] \in {"open", "missing", "check", "upToDate"} => temp[w] = None
    /\ at[w] \in {"archive", "replace", "write"} => temp[w] = Partial
    /\ at[w] \in {"open", "missing", "check", "archive", "replace", "write"} => w \notin failed
    /\ at[w] \in {"publish", "move", "compare", "copy", "moveCopy", "drop"} => temp[w] = Written(w)
    /\ at[w] = "ended" /\ w \notin MoveFails => temp[w] = None

\* Whoever got past the first move has found the trap file.
MainIsThere ==
  \A w \in Task :
    /\ at[w] = "upToDate" => files[Main(w)] # None
    /\ at[w] \in {"compare", "copy", "moveCopy", "drop", "ended"} /\ w \notin MoveFails
         => files[Main(w)] # None

\* The hash in a name is that of the contents.
HashIsOfContents ==
  \A n \in Name : n[2] # None /\ files[n] # None => files[n] = n[2]

\* A temporary file of a source file is only deleted when there is another one like it.
DropsDuplicates ==
  \A w \in Task \ (DiscardDuplicates \cup MoveFails) :
    at[w] \in {"drop", "ended"} => IsPublished(w)

TrapInv ==
  /\ TypeOK /\ OnlySourcesAreArchived /\ TempIsWritten /\ MainIsThere
  /\ HashIsOfContents /\ DropsDuplicates /\ PublishedIsWhole
=============================================================================
