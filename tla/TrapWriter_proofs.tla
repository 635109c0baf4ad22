-------------------------- MODULE TrapWriter_proofs --------------------------
(***************************************************************************)
(* What holds of trap files for any number of processes, tasks, trap files *)
(* and contents: nothing that a task has written is lost, torn or replaced *)
(* by another task.                                                        *)
(***************************************************************************)
EXTENDS TrapWriter, TLAPS

\* The names that tasks use, and what they write.
LEMMA Names ==
  ASSUME NEW w \in Task
  PROVE  /\ Main(w) \in Name /\ Main(w)[1] = TrapFile[w] /\ Main(w)[2] = None
         /\ Written(w) \in Content /\ Written(w) # None
         /\ Partial \in Content /\ Output[w] \in Content /\ Partial # None
BY TrapWriterAssumption DEF Main, Name, Written, Content

\* A task that moves on leaves the others where they are.
LEMMA OthersStay ==
  ASSUME TypeOK, NEW w \in Task, NEW place, Goto(w, place)
  PROVE  /\ at' = [at EXCEPT ![w] = place] /\ at'[w] = place
         /\ \A v \in Task \ {w} : at'[v] = at[v]
BY DEF TypeOK, Goto

LEMMA InitHasInv == Init => TrapInv
<1> SUFFICES ASSUME Init PROVE TrapInv
  OBVIOUS
<1>1. TypeOK
  BY DEF Init, TypeOK, Place
<1>2. OnlySourcesAreArchived /\ TempIsWritten /\ MainIsThere /\ HashIsOfContents /\ DropsDuplicates /\ PublishedIsWhole
  BY DEF Init, OnlySourcesAreArchived, TempIsWritten, MainIsThere, HashIsOfContents, DropsDuplicates, PublishedIsWhole
<1>. QED
  BY <1>1, <1>2 DEF TrapInv

-----------------------------------------------------------------------------
(* Steps that leave the trap folder alone.                                 *)

\* What is in the trap folder stays whole when no task un-ends or fails late.
LEMMA FolderStays ==
  ASSUME TrapInv, UNCHANGED files,
         \A v \in Task : at[v] = "ended" => at'[v] = "ended" /\ (v \in failed <=> v \in failed')
  PROVE  HashIsOfContents' /\ PublishedIsWhole'
BY DEF TrapInv, HashIsOfContents, PublishedIsWhole, Written

\* A task before Dispose moves on.
LEMMA TaskKeepsInv ==
  ASSUME TrapInv, NEW w \in Task,
         Open(w) \/ Miss(w) \/ Skip(w) \/ Begin(w) \/ DeleteArchived(w) \/ MoveToArchive(w)
           \/ Close(w) \/ Throw(w)
  PROVE  TrapInv'
<1>1. /\ TypeOK /\ OnlySourcesAreArchived /\ TempIsWritten /\ MainIsThere
      /\ HashIsOfContents /\ DropsDuplicates /\ PublishedIsWhole
  BY DEF TrapInv
<1>2. PICK place \in Place : Goto(w, place)
  BY DEF Open, Miss, Skip, Begin, DeleteArchived, MoveToArchive, Close, Throw, Place
<1>3. \A v \in Task \ {w} : at'[v] = at[v]
  BY <1>1, <1>2, OthersStay
<1>4. at[w] \in {"open", "check", "archive", "replace", "write"} /\ files' = files
  BY DEF Open, Miss, Skip, Begin, DeleteArchived, MoveToArchive, Close, Throw
<1>5. /\ \A v \in Task \ {w} : temp'[v] = temp[v] /\ (v \in failed <=> v \in failed')
      /\ failed' = failed \/ failed' = failed \cup {w}
  BY <1>1 DEF TypeOK, Open, Miss, Skip, Begin, DeleteArchived, MoveToArchive, Close, Throw
<1>6. at'[w] \in {"missing", "check", "upToDate", "archive", "replace", "write", "publish"}
  BY <1>1 DEF TypeOK, Open, Miss, Skip, Begin, DeleteArchived, MoveToArchive, Close, Throw, Goto
<1>7. TypeOK'
  <2>1. at' \in [Task -> Place]
    BY <1>1, <1>2 DEF TypeOK, Goto
  <2>2. temp' \in [Task -> Content \cup {None}] /\ failed' \subseteq Task
    BY <1>1, Names DEF TypeOK, Open, Miss, Skip, Begin, DeleteArchived, MoveToArchive, Close, Throw
  <2>3. archive' \subseteq Sources
    <3>1. CASE MoveToArchive(w)
      <4>1. Source[w] \in Sources
        BY <1>1, <3>1 DEF MoveToArchive, OnlySourcesAreArchived, Sources
      <4>. QED
        BY <1>1, <3>1, <4>1 DEF TypeOK, MoveToArchive
    <3>2. CASE ~MoveToArchive(w)
      BY <1>1, <3>2 DEF TypeOK, Open, Miss, Skip, Begin, DeleteArchived, Close, Throw
    <3>. QED
      BY <3>1, <3>2
  <2>. QED
    BY <1>1, <1>4, <2>1, <2>2, <2>3 DEF TypeOK
<1>8. OnlySourcesAreArchived'
  <2>1. at'[w] \in {"archive", "replace"} => Source[w] # None
    BY <1>1, <1>2, OthersStay DEF OnlySourcesAreArchived, TypeOK, Open, Miss, Skip, Begin, DeleteArchived,
       MoveToArchive, Close, Throw, Goto
  <2>. QED
    BY <1>1, <1>3, <2>1 DEF OnlySourcesAreArchived
<1>9. TempIsWritten'
  <2>1. ASSUME NEW v \in Task \ {w} PROVE Written(v)' = Written(v)
    BY <1>5, <2>1 DEF Written
  <2>2. /\ at'[w] \in {"missing", "check", "upToDate"} => temp'[w] = None
        /\ at'[w] \in {"missing", "check"} => w \notin failed'
        /\ at'[w] \in {"archive", "replace", "write"} => temp'[w] = Partial /\ w \notin failed'
        /\ at'[w] = "publish" => temp'[w] = Written(w)'
    BY <1>1 DEF TypeOK, TempIsWritten, Written, Open, Miss, Skip, Begin, DeleteArchived, MoveToArchive,
       Close, Throw, Goto
  <2>3. ASSUME NEW v \in Task \ {w}
        PROVE  /\ at'[v] = at[v] /\ temp'[v] = temp[v] /\ (v \in failed <=> v \in failed')
               /\ Written(v)' = Written(v)
    BY <1>3, <1>5, <2>1
  <2>. QED
    BY <1>1, <1>6, <2>2, <2>3 DEF TempIsWritten
<1>10. MainIsThere'
  <2>1. at'[w] = "upToDate" => files'[Main(w)] # None
    BY <1>1, <1>4 DEF TypeOK, Open, Miss, Skip, UpToDate, Begin, DeleteArchived, MoveToArchive, Close, Throw, Goto
  <2>. QED
    BY <1>1, <1>3, <1>4, <1>6, <2>1 DEF MainIsThere, Main
<1>11. DropsDuplicates'
  <2>1. ASSUME NEW v \in Task \ {w} PROVE IsPublished(v) => IsPublished(v)'
    BY <1>4, <1>5, <2>1 DEF IsPublished, Written
  <2>. QED
    BY <1>1, <1>3, <1>6, <2>1 DEF DropsDuplicates
<1>12. HashIsOfContents' /\ PublishedIsWhole'
  BY <1>3, <1>4, <1>5, FolderStays
<1>. QED
  BY <1>7, <1>8, <1>9, <1>10, <1>11, <1>12 DEF TrapInv

-----------------------------------------------------------------------------
(* Dispose.                                                                *)

\* A move that succeeds.
LEMMA MoveKeepsInv ==
  ASSUME TrapInv, NEW w \in Task, NEW dest \in Name,
         dest[1] = TrapFile[w], dest[2] # None => dest[2] = temp[w],
         at[w] \in {"move", "moveCopy"}, at[w] = "move" => dest = Main(w),
         files[dest] = None,
         files' = [files EXCEPT ![dest] = temp[w]],
         temp' = [temp EXCEPT ![w] = None],
         Goto(w, "ended"), UNCHANGED <<archive, failed>>
  PROVE  TrapInv'
<1>1. /\ TypeOK /\ OnlySourcesAreArchived /\ TempIsWritten /\ MainIsThere
      /\ HashIsOfContents /\ DropsDuplicates /\ PublishedIsWhole
  BY DEF TrapInv
<1>2. at'[w] = "ended" /\ \A v \in Task \ {w} : at'[v] = at[v]
  BY <1>1, OthersStay
<1>3. temp[w] = Written(w) /\ temp[w] \in Content /\ temp[w] # None
  BY <1>1, Names DEF TempIsWritten
<1>4. files'[dest] = temp[w] /\ \A n \in Name \ {dest} : files'[n] = files[n]
  BY <1>1 DEF TypeOK
<1>5. temp'[w] = None /\ \A v \in Task \ {w} : temp'[v] = temp[v]
  BY <1>1 DEF TypeOK
<1>6. \A v \in Task : Written(v)' = Written(v)
  BY DEF Written
<1>7. TypeOK'
  BY <1>1, <1>3 DEF TypeOK, Goto, Place
<1>8. OnlySourcesAreArchived' /\ TempIsWritten'
  BY <1>1, <1>2, <1>5, <1>6 DEF OnlySourcesAreArchived, TempIsWritten
<1>9. MainIsThere'
  <2>1. \A v \in Task : Main(v) \in Name /\ (files[Main(v)] # None => files'[Main(v)] # None)
    BY <1>3, <1>4, Names
  <2>2. w \notin MoveFails => files'[Main(w)] # None
    <3>1. CASE at[w] = "move"
      BY <1>3, <1>4, <3>1
    <3>2. CASE at[w] = "moveCopy"
      BY <1>1, <2>1, <3>2 DEF MainIsThere
    <3>. QED
      BY <3>1, <3>2
  <2>3. \A v \in Task : Main(v)' = Main(v)
    BY DEF Main
  <2>. QED
    BY <1>1, <1>2, <2>1, <2>2, <2>3 DEF MainIsThere
<1>10. HashIsOfContents'
  BY <1>1, <1>4 DEF HashIsOfContents
<1>11. DropsDuplicates'
  <2>1. IsPublished(w)'
    BY <1>3, <1>4, <1>6 DEF IsPublished
  <2>2. ASSUME NEW v \in Task, IsPublished(v) PROVE IsPublished(v)'
    <3>1. PICK n \in Name : n[1] = TrapFile[v] /\ files[n] = Written(v)
      BY <2>2 DEF IsPublished
    <3>2. n # dest
      BY <3>1, Names
    <3>. QED
      BY <1>4, <1>6, <3>1, <3>2 DEF IsPublished
  <2>. QED
    BY <1>1, <1>2, <2>1, <2>2 DEF DropsDuplicates
<1>12. PublishedIsWhole'
  <2>1. ASSUME NEW n \in Name, files'[n] # None
        PROVE  \E v \in Task : TrapFile[v] = n[1] /\ at'[v] = "ended" /\ files'[n] = Written(v)'
    <3>1. CASE n = dest
      BY <1>2, <1>3, <1>4, <1>6, <3>1
    <3>2. CASE n # dest
      <4>1. PICK v \in Task : TrapFile[v] = n[1] /\ at[v] = "ended" /\ files[n] = Written(v)
        BY <1>1, <1>4, <2>1, <3>2 DEF PublishedIsWhole
      <4>. QED
        BY <1>2, <1>4, <1>6, <3>2, <4>1
    <3>. QED
      BY <3>1, <3>2
  <2>. QED
    BY <2>1 DEF PublishedIsWhole
<1>. QED
  BY <1>7, <1>8, <1>9, <1>10, <1>11, <1>12 DEF TrapInv

\* Dispose goes on without a move, or drops the temporary file.
LEMMA DisposeKeepsInv ==
  ASSUME TrapInv, NEW w \in Task,
         NEW place \in {"move", "compare", "copy", "moveCopy", "drop", "ended"},
         at[w] \in {"publish", "move", "compare", "copy", "moveCopy", "drop"},
         Goto(w, place), UNCHANGED <<files, archive, failed>>,
         \/ UNCHANGED temp /\ (place = "ended" => w \in MoveFails)
         \/ place = "ended" /\ temp' = [temp EXCEPT ![w] = None],
         place \in {"compare", "copy", "moveCopy", "drop", "ended"} /\ w \notin MoveFails
           => files[Main(w)] # None,
         place \in {"drop", "ended"} /\ w \notin DiscardDuplicates \cup MoveFails
           => IsPublished(w)
  PROVE  TrapInv'
<1>1. /\ TypeOK /\ OnlySourcesAreArchived /\ TempIsWritten /\ MainIsThere
      /\ HashIsOfContents /\ DropsDuplicates /\ PublishedIsWhole
  BY DEF TrapInv
<1>2. at'[w] = place /\ \A v \in Task \ {w} : at'[v] = at[v]
  BY <1>1, OthersStay
<1>3. \A v \in Task \ {w} : temp'[v] = temp[v]
  BY <1>1 DEF TypeOK
<1>4. \A v \in Task : Written(v)' = Written(v) /\ Main(v)' = Main(v)
  BY DEF Written, Main
<1>5. TypeOK'
  BY <1>1 DEF TypeOK, Goto, Place
<1>6. OnlySourcesAreArchived'
  BY <1>1, <1>2 DEF OnlySourcesAreArchived
<1>7. TempIsWritten'
  <2>1. /\ place # "ended" => temp'[w] = Written(w)
        /\ place = "ended" /\ w \notin MoveFails => temp'[w] = None
    BY <1>1 DEF TypeOK, TempIsWritten
  <2>. QED
    BY <1>1, <1>2, <1>3, <1>4, <2>1 DEF TempIsWritten
<1>8. MainIsThere'
  BY <1>1, <1>2, <1>4 DEF MainIsThere
<1>9. DropsDuplicates'
  <2>1. \A v \in Task : IsPublished(v)' <=> IsPublished(v)
    BY <1>4 DEF IsPublished
  <2>. QED
    BY <1>1, <1>2, <2>1 DEF DropsDuplicates
<1>10. HashIsOfContents' /\ PublishedIsWhole'
  BY <1>2, FolderStays
<1>. QED
  BY <1>5, <1>6, <1>7, <1>8, <1>9, <1>10 DEF TrapInv

\* The first move, or the test before it.
LEMMA PublishKeepsInv ==
  ASSUME TrapInv, NEW w \in Task, Publish(w)
  PROVE  TrapInv'
<1>. DEFINE otherwise == IF w \in DiscardDuplicates THEN "drop" ELSE "compare"
<1>1. Main(w) \in Name /\ Main(w)[1] = TrapFile[w] /\ Main(w)[2] = None
  BY Names
<1>2. TryMove(w, "publish", "move", Main(w), otherwise) /\ UNCHANGED <<archive, failed>>
  BY DEF Publish
<1>3. CASE at[w] = "publish" /\ files[Main(w)] = None /\ Goto(w, "move") /\ UNCHANGED <<temp, files>>
  BY <1>2, <1>3, DisposeKeepsInv
<1>4. CASE /\ at[w] = "move" /\ files[Main(w)] = None /\ Goto(w, "ended")
           /\ files' = [files EXCEPT ![Main(w)] = temp[w]] /\ temp' = [temp EXCEPT ![w] = None]
  BY <1>1, <1>2, <1>4, MoveKeepsInv
<1>5. CASE /\ at[w] \in {"publish", "move"} /\ (files[Main(w)] # None \/ w \in MoveFails)
           /\ Goto(w, otherwise) /\ UNCHANGED <<temp, files>>
  <2>1. otherwise \in {"compare", "drop"} /\ (otherwise = "drop" => w \in DiscardDuplicates)
    OBVIOUS
  <2>. QED
    BY <1>2, <1>5, <2>1, DisposeKeepsInv
<1>. QED
  BY <1>2, <1>3, <1>4, <1>5 DEF TryMove

\* The comparison of the hashes.
LEMMA CompareKeepsInv ==
  ASSUME TrapInv, NEW w \in Task, Compare(w)
  PROVE  TrapInv'
<1>1. /\ at[w] = "compare" /\ UNCHANGED <<temp, files, archive, failed>>
      /\ temp[w] = Written(w) /\ (w \notin MoveFails => files[Main(w)] # None)
  BY DEF Compare, TrapInv, TempIsWritten, MainIsThere
<1>2. CASE files[Main(w)] = None
  <2>1. Goto(w, "ended") /\ w \in MoveFails
    BY <1>1, <1>2 DEF Compare
  <2>. QED
    BY <1>1, <2>1, DisposeKeepsInv
<1>3. CASE files[Main(w)] # None /\ files[Main(w)] = temp[w]
  <2>1. Goto(w, "drop")
    BY <1>3 DEF Compare
  <2>2. IsPublished(w)
    BY <1>1, <1>3, Names DEF IsPublished
  <2>. QED
    BY <1>1, <1>3, <2>1, <2>2, DisposeKeepsInv
<1>4. CASE files[Main(w)] # None /\ files[Main(w)] # temp[w]
  <2>1. Goto(w, "copy")
    BY <1>4 DEF Compare
  <2>. QED
    BY <1>1, <1>4, <2>1, DisposeKeepsInv
<1>. QED
  BY <1>2, <1>3, <1>4

\* The second move: a file with this hash in its name is one like ours.
LEMMA PublishCopyKeepsInv ==
  ASSUME TrapInv, NEW w \in Task, PublishCopy(w)
  PROVE  TrapInv'
<1>1. TryMove(w, "copy", "moveCopy", Copy(w), "drop") /\ UNCHANGED <<archive, failed>>
  BY DEF PublishCopy
<1>2. at[w] \in {"copy", "moveCopy"}
  BY <1>1 DEF TryMove
<1>3. /\ temp[w] = Written(w) /\ (w \notin MoveFails => files[Main(w)] # None)
      /\ HashIsOfContents
  BY <1>2 DEF TrapInv, TempIsWritten, MainIsThere
<1>4. /\ Copy(w) \in Name /\ Copy(w)[1] = TrapFile[w]
      /\ Copy(w)[2] = temp[w] /\ temp[w] # None
  BY <1>3, Names DEF Copy, Name
<1>5. CASE at[w] = "copy" /\ Goto(w, "moveCopy") /\ UNCHANGED <<temp, files>>
  BY <1>1, <1>3, <1>5, DisposeKeepsInv
<1>6. CASE /\ at[w] = "moveCopy" /\ files[Copy(w)] = None /\ Goto(w, "ended")
           /\ files' = [files EXCEPT ![Copy(w)] = temp[w]] /\ temp' = [temp EXCEPT ![w] = None]
  BY <1>1, <1>4, <1>6, MoveKeepsInv
<1>7. CASE /\ files[Copy(w)] # None \/ w \in MoveFails
           /\ Goto(w, "drop") /\ UNCHANGED <<temp, files>>
  <2>1. w \notin MoveFails => IsPublished(w)
    BY <1>3, <1>4, <1>7 DEF HashIsOfContents, IsPublished
  <2>. QED
    BY <1>1, <1>2, <1>3, <1>7, <2>1, DisposeKeepsInv
<1>. QED
  BY <1>1, <1>5, <1>6, <1>7 DEF TryMove

\* The temporary file is deleted.
LEMMA DropKeepsInv ==
  ASSUME TrapInv, NEW w \in Task, Drop(w)
  PROVE  TrapInv'
<1>1. /\ w \notin MoveFails => files[Main(w)] # None
      /\ w \notin DiscardDuplicates \cup MoveFails => IsPublished(w)
  BY DEF Drop, TrapInv, MainIsThere, DropsDuplicates
<1>. QED
  BY <1>1, DisposeKeepsInv DEF Drop

\* A killed task does nothing any more, and those that have returned stay so.
LEMMA KillKeepsInv ==
  ASSUME TrapInv, NEW p, Kill(p)
  PROVE  TrapInv'
<1>1. /\ TypeOK /\ OnlySourcesAreArchived /\ TempIsWritten /\ MainIsThere
      /\ HashIsOfContents /\ DropsDuplicates /\ PublishedIsWhole
  BY DEF TrapInv
<1>2. \A v \in Task : at'[v] = at[v] \/ (at'[v] = "killed" /\ at[v] \notin Over)
  BY DEF Kill
<1>3. TypeOK'
  BY <1>1 DEF TypeOK, Kill, Place
<1>4. UNCHANGED <<temp, files, archive, failed>> /\ \A v \in Task : Written(v)' = Written(v)
  BY DEF Kill, Written
<1>5. OnlySourcesAreArchived' /\ TempIsWritten'
  BY <1>1, <1>2, <1>4 DEF OnlySourcesAreArchived, TempIsWritten
<1>6. MainIsThere' /\ DropsDuplicates'
  BY <1>1, <1>2, <1>4 DEF MainIsThere, Main, DropsDuplicates, IsPublished
<1>7. HashIsOfContents' /\ PublishedIsWhole'
  BY <1>2, <1>4, FolderStays DEF Over, Returned
<1>. QED
  BY <1>3, <1>5, <1>6, <1>7 DEF TrapInv

LEMMA StepKeepsInv ==
  ASSUME TrapInv, [Next]_vars
  PROVE  TrapInv'
<1>1. CASE \E w \in Task : Open(w) \/ Miss(w) \/ Skip(w) \/ Begin(w) \/ DeleteArchived(w)
                           \/ MoveToArchive(w) \/ Close(w) \/ Throw(w)
  BY <1>1, TaskKeepsInv
<1>2. CASE \E w \in Task : Publish(w) \/ Compare(w) \/ PublishCopy(w) \/ Drop(w)
  BY <1>2, PublishKeepsInv, CompareKeepsInv, PublishCopyKeepsInv, DropKeepsInv
<1>3. CASE \E p \in Killable : Kill(p)
  BY <1>3, KillKeepsInv
<1>4. CASE UNCHANGED vars
  BY <1>4 DEF vars, TrapInv, TypeOK, OnlySourcesAreArchived, TempIsWritten, MainIsThere, Main,
     HashIsOfContents, DropsDuplicates, IsPublished, PublishedIsWhole, Written
<1>. QED
  BY <1>1, <1>2, <1>3, <1>4 DEF Next

-----------------------------------------------------------------------------
(* What a step may do to the trap folder and to the archive.               *)

\* A file is only ever moved to a name that is free.
LEMMA StepKeepsFiles ==
  ASSUME TrapInv, [Next]_vars, NEW n \in Name, files[n] # None
  PROVE  files'[n] = files[n]
<1>1. TypeOK
  BY DEF TrapInv
<1>2. ASSUME NEW w \in Task, NEW dest, NEW check, NEW move, NEW otherwise,
             TryMove(w, check, move, dest, otherwise)
      PROVE  files'[n] = files[n]
  BY <1>1, <1>2 DEF TryMove, TypeOK
<1>3. CASE \E w \in Task : Publish(w) \/ PublishCopy(w)
  BY <1>2, <1>3 DEF Publish, PublishCopy
<1>4. CASE UNCHANGED files
  BY <1>4
<1>. QED
  BY <1>3, <1>4 DEF Next, vars, Open, Miss, Skip, Begin, DeleteArchived, MoveToArchive, Close, Throw,
     Compare, Drop, Kill

\* A source file is missing from the archive only while somebody replaces it.
LEMMA StepKeepsArchive ==
  ASSUME TrapInv, ArchiveIsKept, [Next]_vars
  PROVE  ArchiveIsKept'
<1>. DEFINE Replaced(w) == \E v \in Task : Source[v] = Source[w] /\ at[v] \in {"replace", "killed"}
<1>. SUFFICES ASSUME NEW w \in Task, HasArchived(w)'
              PROVE  Source[w] \in archive' \/ Replaced(w)'
  BY DEF ArchiveIsKept
<1>1. TypeOK /\ Source[w] # None
  BY DEF TrapInv, HasArchived
<1>2. HasArchived(w) => Source[w] \in archive \/ Replaced(w)
  BY DEF ArchiveIsKept
<1>3. ASSUME NEW v \in Task, NEW place, Goto(v, place)
      PROVE  at'[v] = place /\ \A u \in Task \ {v} : at'[u] = at[u]
  BY <1>1, <1>3, OthersStay
<1>4. CASE \E v \in Task : DeleteArchived(v)
  <2>1. PICK v \in Task : DeleteArchived(v)
    BY <1>4
  <2>2. /\ at[v] = "archive" /\ at'[v] = "replace" /\ \A u \in Task \ {v} : at'[u] = at[u]
        /\ archive' = archive \ {Source[v]} /\ failed' = failed
    BY <1>3, <2>1 DEF DeleteArchived
  <2>3. HasArchived(w)
    BY <2>2 DEF HasArchived
  <2>. QED
    BY <1>2, <2>2, <2>3
<1>5. CASE \E v \in Task : MoveToArchive(v)
  <2>1. PICK v \in Task : MoveToArchive(v)
    BY <1>5
  <2>2. /\ at'[v] = "write" /\ \A u \in Task \ {v} : at'[u] = at[u]
        /\ archive' = archive \cup {Source[v]} /\ failed' = failed
    BY <1>3, <2>1 DEF MoveToArchive
  <2>3. w # v => HasArchived(w)
    BY <2>2 DEF HasArchived
  <2>. QED
    BY <1>2, <2>2, <2>3
<1>6. CASE \E v \in Task : \/ Open(v) \/ Miss(v) \/ Skip(v) \/ Begin(v) \/ Close(v) \/ Throw(v)
                          \/ Publish(v) \/ Compare(v) \/ PublishCopy(v) \/ Drop(v)
  <2>1. PICK v \in Task : \/ Open(v) \/ Miss(v) \/ Skip(v) \/ Begin(v) \/ Close(v) \/ Throw(v)
                         \/ Publish(v) \/ Compare(v) \/ PublishCopy(v) \/ Drop(v)
    BY <1>6
  <2>2. PICK place : Goto(v, place)
    BY <2>1 DEF Open, Miss, Skip, Begin, Close, Throw, Publish, Compare, PublishCopy, TryMove, Drop
  <2>3. /\ at'[v] = place /\ \A u \in Task \ {v} : at'[u] = at[u]
        /\ archive' = archive
    BY <1>3, <2>1, <2>2 DEF Open, Miss, Skip, Begin, Close, Throw, Publish, Compare, PublishCopy, Drop
  <2>4. at[v] \notin {"replace", "killed"}
    BY <2>1 DEF Open, Miss, Skip, Begin, Close, Throw, Publish, Compare, PublishCopy, TryMove, Drop
  <2>5. HasArchived(w)
    <3>1. CASE w # v
      <4>1. w \notin failed' => w \notin failed
        BY <2>1 DEF Open, Miss, Skip, Begin, Close, Throw, Publish, Compare, PublishCopy, Drop
      <4>. QED
        BY <2>3, <3>1, <4>1 DEF HasArchived
    <3>2. CASE w = v
      BY <1>1, <2>1, <2>3, <3>2 DEF HasArchived, Goto, TypeOK, Open, Miss, Skip, Begin, Close, Throw, Publish,
         Compare, PublishCopy, TryMove, Drop
    <3>. QED
      BY <3>1, <3>2
  <2>. QED
    BY <1>2, <2>3, <2>4, <2>5
<1>7. CASE \E p \in Killable : Kill(p)
  <2>1. /\ \A u \in Task : at'[u] = at[u] \/ at'[u] = "killed"
        /\ archive' = archive /\ failed' = failed
    BY <1>7 DEF Kill
  <2>2. HasArchived(w)
    BY <2>1 DEF HasArchived
  <2>. QED
    BY <1>2, <2>1, <2>2
<1>8. CASE UNCHANGED vars
  BY <1>2, <1>8 DEF vars, HasArchived
<1>. QED
  BY <1>4, <1>5, <1>6, <1>7, <1>8 DEF Next

-----------------------------------------------------------------------------
(* Theorems.                                                               *)

\* The invariant holds in every reachable state.
THEOREM Invariant == Spec => []TrapInv
<1>1. TrapInv /\ [Next]_vars => TrapInv'
  BY StepKeepsInv
<1>. QED
  BY <1>1, InitHasInv, PTL DEF Spec

\* Every variable keeps its type, and every file of the trap folder is whole
\* unless the extraction of the task that wrote it threw.
THEOREM TrapFilesAreWhole == Spec => [](TypeOK /\ PublishedIsWhole)
<1>1. TrapInv => TypeOK /\ PublishedIsWhole
  BY DEF TrapInv
<1>. QED
  BY <1>1, Invariant, PTL

\* Every task that has returned has its result in the trap folder, or, if it
\* is to discard duplicates, finds somebody's there; no temporary file is left.
THEOREM ResultsAreKept == Spec => []NothingIsLost
<1>1. ASSUME TrapInv PROVE NothingIsLost
  BY <1>1 DEF TrapInv, TempIsWritten, MainIsThere, DropsDuplicates, NothingIsLost, Returned
<1>. QED
  BY <1>1, Invariant, PTL

\* Whatever processes do, a trap file that is there keeps its contents.
THEOREM TrapFilesStay == Spec => PublishedStays
<1>1. TrapInv /\ [Next]_vars => [\A n \in Name : files[n] # None => files'[n] = files[n]]_files
  BY StepKeepsFiles
<1>. QED
  BY <1>1, Invariant, PTL DEF Spec, PublishedStays

\* A source file that has been archived has a copy in the archive, but for the
\* moment in which a task replaces it, or for good if that task is killed then.
THEOREM SourcesAreArchived == Spec => []ArchiveIsKept
<1>1. Init => ArchiveIsKept
  BY DEF Init, ArchiveIsKept, HasArchived
<1>2. TrapInv /\ ArchiveIsKept /\ [Next]_vars => ArchiveIsKept'
  BY StepKeepsArchive
<1>. QED
  BY <1>1, <1>2, Invariant, PTL DEF Spec
=============================================================================
