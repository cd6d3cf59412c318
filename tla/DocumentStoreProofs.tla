------------------------- MODULE DocumentStoreProofs -------------------------
(***************************************************************************)
(* Proofs about DocumentStore, for any number of requests, crashes and     *)
(* power losses.                                                           *)
(***************************************************************************)

EXTENDS DocumentStore, TLAPS

\* What a request writes is an edit of the document.
LEMMA EditsAreEdits == ASSUME NEW r \in Requests PROVE EditsOf(r) \subseteq Edits /\ FirstEdit(r) \subseteq Edits
  BY DEF EditsOf, FirstEdit, Edits

\* A missing file is a state a file can be in.
LEMMA NoFileIsInode == NoFile \in Inode
  BY DEF NoFile, Inode

\* So is a file that lost its unsynced data.
LEMMA TornIsInode == Torn \in Inode
  BY DEF Torn, Inode

\* Type correctness: every variable of the store keeps its type.
THEOREM TypeCorrect == Spec => []TypeOK
<1>1. Init => TypeOK
  BY StoreAssumption, NoFileIsInode DEF Init, TypeOK, Writers, Phases
<1>2. TypeOK /\ [Next]_vars => TypeOK'
  <2> SUFFICES ASSUME TypeOK, [Next]_vars PROVE TypeOK'
    OBVIOUS
  <2> USE DEF TypeOK, memVars, fileVars, faultVars, Phases
  <2>1. CASE LoadMissing
    BY <2>1 DEF LoadMissing, Writers
  <2>2. CASE LoadFile
    BY <2>2 DEF LoadFile, Inode
  <2>3. ASSUME NEW r \in Mutators, Mutate(r) PROVE TypeOK'
    BY <2>3, EditsAreEdits DEF Mutate, Refused, StartsPersist, Requests, Writers
  <2>4. ASSUME NEW r \in Updaters, Update(r) PROVE TypeOK'
    BY <2>4, EditsAreEdits DEF Update, Refused, StartsPersist, Requests, Writers
  <2>5. ASSUME NEW r \in Writers, WriteTmp(r) PROVE TypeOK'
    BY <2>5 DEF WriteTmp, Inode
  <2>6. ASSUME NEW r \in Writers, SyncTmp(r) PROVE TypeOK'
    BY <2>6 DEF SyncTmp, Inode
  <2>7. ASSUME NEW r \in Writers, Rename(r) PROVE TypeOK'
    BY <2>7, NoFileIsInode DEF Rename
  <2>8. ASSUME NEW r \in Writers, PersistFails(r) PROVE TypeOK'
    BY <2>8, NoFileIsInode, TornIsInode DEF PersistFails, AfterFailure, ReleasedLock, FailureAnswer
  <2>9. ASSUME NEW r \in Writers, Return(r) PROVE TypeOK'
    BY <2>9 DEF Return
  <2>10. ASSUME NEW c \in Readers, Snapshot(c) PROVE TypeOK'
    BY <2>10 DEF Snapshot
  <2>11. ASSUME Stops PROVE
           /\ server' \in {"down", "loading", "up"}
           /\ mem' \subseteq Edits
           /\ lock' \in Writers \cup {None}
           /\ previous' \subseteq Edits
           /\ phase' \in [Writers -> Phases]
           /\ result' \in [Writers -> {"none", "ok", "error"}]
           /\ view' \in [Readers -> SUBSET Edits]
    BY <2>11 DEF Stops
  <2>12. CASE ProcessCrash
    BY <2>11, <2>12 DEF ProcessCrash
  <2>13. CASE PowerLoss
    <3>1. Survivors(file) \subseteq Inode /\ Survivors(stable) \subseteq Inode /\ Survivors(tmp) \subseteq Inode
      BY TornIsInode DEF Survivors
    <3>2. QED
      BY <2>11, <2>13, <3>1, NoFileIsInode DEF PowerLoss
  <2>14. CASE FlushDirectory
    BY <2>14 DEF FlushDirectory
  <2>15. CASE UNCHANGED vars
    BY <2>15 DEF vars
  <2>16. QED
    BY <2>1, <2>2, <2>3, <2>4, <2>5, <2>6, <2>7, <2>8, <2>9, <2>10, <2>12, <2>13, <2>14, <2>15 DEF Next
<1>3. QED
  BY <1>1, <1>2, PTL DEF Spec

-----------------------------------------------------------------------------
(***************************************************************************)
(* Who is writing: a writer inside persist holds the lock, only a started  *)
(* server has a lock held, and a request that was answered is done.        *)
(***************************************************************************)
ControlInv ==
    /\ \A r \in Writers : InPersist(r) \/ phase[r] = "return" => lock = r
    /\ lock # None => server # "down"
    /\ \A r \in Requests : result[r] # "none" => phase[r] = "done"

\* The control part of every invariant below: the lock, the phases and the
\* answers of the writers fit each other.
THEOREM ControlCorrect == Spec => [](TypeOK /\ ControlInv)
<1>1. Init => ControlInv
  BY StoreAssumption DEF Init, ControlInv, InPersist, Writers
<1>2. TypeOK /\ ControlInv /\ [Next]_vars => ControlInv'
  <2> SUFFICES ASSUME TypeOK, ControlInv, [Next]_vars PROVE ControlInv'
    OBVIOUS
  <2> USE StoreAssumption DEF TypeOK, ControlInv, InPersist, memVars, Writers, Requests
  <2>1. CASE LoadMissing
    BY <2>1 DEF LoadMissing
  <2>2. CASE LoadFile
    BY <2>2 DEF LoadFile
  <2>3. ASSUME NEW r \in Mutators, Mutate(r) PROVE ControlInv'
    BY <2>3 DEF Mutate, TakesLock, Refused, StartsPersist
  <2>4. ASSUME NEW r \in Updaters, Update(r) PROVE ControlInv'
    BY <2>4 DEF Update, TakesLock, Refused, StartsPersist
  <2>5. ASSUME NEW r \in Writers, WriteTmp(r) PROVE ControlInv'
    BY <2>5 DEF WriteTmp
  <2>6. ASSUME NEW r \in Writers, SyncTmp(r) PROVE ControlInv'
    BY <2>6 DEF SyncTmp
  <2>7. ASSUME NEW r \in Writers, Rename(r) PROVE ControlInv'
    BY <2>7 DEF Rename
  <2>8. ASSUME NEW r \in Writers, PersistFails(r) PROVE ControlInv'
    BY <2>8 DEF PersistFails, ReleasedLock, FailureAnswer
  <2>9. ASSUME NEW r \in Writers, Return(r) PROVE ControlInv'
    BY <2>9 DEF Return
  <2>10. ASSUME NEW c \in Readers, Snapshot(c) PROVE ControlInv'
    BY <2>10 DEF Snapshot
  <2>11. ASSUME Stops PROVE ControlInv'
    BY <2>11 DEF Stops
  <2>12. CASE ProcessCrash
    BY <2>11, <2>12 DEF ProcessCrash
  <2>13. CASE PowerLoss
    BY <2>11, <2>13 DEF PowerLoss
  <2>14. CASE FlushDirectory
    BY <2>14 DEF FlushDirectory
  <2>15. CASE UNCHANGED vars
    BY <2>15 DEF vars
  <2>16. QED
    BY <2>1, <2>2, <2>3, <2>4, <2>5, <2>6, <2>7, <2>8, <2>9, <2>10, <2>12, <2>13, <2>14, <2>15 DEF Next
<1>3. QED
  BY TypeCorrect, <1>1, <1>2, PTL DEF Spec

-----------------------------------------------------------------------------
(***************************************************************************)
(* The files.  What may replace the data file was written whole before it  *)
(* was flushed, and flushed before it was renamed, so nothing that a power *)
(* loss can bring back is torn.                                            *)
(***************************************************************************)
FileInv ==
    /\ file.kind # "torn" /\ file.synced
    /\ stable.kind # "torn" /\ stable.synced
    /\ \A r \in Writers :
          lock = r =>
            /\ phase[r] \in {"sync", "rename"} => tmp.kind = "whole"
            /\ phase[r] = "rename" => tmp.synced

\* FileInv is inductive: each step of persist prepares what the next one needs.
LEMMA FilesSound == Spec => []FileInv
<1>1. Init => FileInv
  BY StoreAssumption DEF Init, FileInv, NoFile, Writers
<1>2. TypeOK /\ FileInv /\ [Next]_vars => FileInv'
  <2> SUFFICES ASSUME TypeOK, FileInv, [Next]_vars PROVE FileInv'
    OBVIOUS
  <2> USE StoreAssumption DEF TypeOK, FileInv, memVars, fileVars, Writers, Requests
  <2>1. CASE LoadMissing
    BY <2>1 DEF LoadMissing
  <2>2. CASE LoadFile
    BY <2>2 DEF LoadFile
  <2>3. ASSUME NEW r \in Mutators, Mutate(r) PROVE FileInv'
    BY <2>3 DEF Mutate, Refused, StartsPersist
  <2>4. ASSUME NEW r \in Updaters, Update(r) PROVE FileInv'
    BY <2>4 DEF Update, Refused, StartsPersist
  <2>5. ASSUME NEW r \in Writers, WriteTmp(r) PROVE FileInv'
    BY <2>5 DEF WriteTmp
  <2>6. ASSUME NEW r \in Writers, SyncTmp(r) PROVE FileInv'
    BY <2>6 DEF SyncTmp, Inode
  <2>7. ASSUME NEW r \in Writers, Rename(r) PROVE FileInv'
    BY <2>7 DEF Rename
  <2>8. ASSUME NEW r \in Writers, PersistFails(r) PROVE FileInv'
    BY <2>8 DEF PersistFails, ReleasedLock
  <2>9. ASSUME NEW r \in Writers, Return(r) PROVE FileInv'
    BY <2>9 DEF Return
  <2>10. ASSUME NEW c \in Readers, Snapshot(c) PROVE FileInv'
    BY <2>10 DEF Snapshot
  <2>11. CASE ProcessCrash
    BY <2>11 DEF ProcessCrash, Stops
  <2>12. CASE PowerLoss
    <3>1. file' \in {file, stable} /\ stable' = file'
      BY <2>12 DEF PowerLoss, Survivors
    <3>2. lock' = None
      BY <2>12 DEF PowerLoss, Stops
    <3>3. QED
      BY <3>1, <3>2
  <2>13. CASE FlushDirectory
    BY <2>13 DEF FlushDirectory
  <2>14. CASE UNCHANGED vars
    BY <2>14 DEF vars
  <2>15. QED
    BY <2>1, <2>2, <2>3, <2>4, <2>5, <2>6, <2>7, <2>8, <2>9, <2>10, <2>11, <2>12, <2>13, <2>14 DEF Next
<1>3. QED
  BY TypeCorrect, <1>1, <1>2, PTL DEF Spec

\* No power loss, wherever it strikes between two steps of persist, leaves a
\* truncated data file.
THEOREM NeverTorn == Spec => []FileNeverTorn
<1>1. FileInv => FileNeverTorn
  BY DEF FileInv, FileNeverTorn
<1>2. QED
  BY <1>1, FilesSound, PTL

-----------------------------------------------------------------------------
(***************************************************************************)
(* The documents.  A request that has not started, or that was refused,    *)
(* left no edit anywhere; while a Mutate persists, the document it can put *)
(* back is free of its own edits and of those of every such request.       *)
(***************************************************************************)
Clean(q, d) == EditsOf(q) \cap d = {}
Outside(q) == phase[q] = "idle" \/ result[q] = "error"

TmpInv ==
    \A r \in Writers : lock = r /\ phase[r] \in {"sync", "rename"} => tmp.doc = mem

CleanInv ==
    \A q \in Mutators :
        Outside(q) => Clean(q, mem) /\ Clean(q, file.doc) /\ Clean(q, stable.doc)

UndoInv ==
    \A r \in Mutators :
        lock = r /\ InPersist(r) =>
            /\ Clean(r, previous) /\ Clean(r, file.doc) /\ Clean(r, stable.doc)
            /\ \A q \in Mutators : Outside(q) => Clean(q, previous)

\* The edits of two requests are different edits.
LEMMA EditsApart ==
    ASSUME NEW q, NEW r, q # r, NEW d
    PROVE  /\ Clean(q, d \cup EditsOf(r)) <=> Clean(q, d)
           /\ Clean(q, d \cup FirstEdit(r)) <=> Clean(q, d)
  BY DEF Clean, EditsOf, FirstEdit

\* Nobody has an edit in an empty document.
LEMMA EmptyIsClean == \A q : Clean(q, {})
  BY DEF Clean

\* The temporary file holds the document in memory from the moment it was
\* written until it is renamed.
LEMMA TmpStep == TypeOK /\ ControlInv /\ TmpInv /\ [Next]_vars => TmpInv'
  <1> SUFFICES ASSUME TypeOK, ControlInv, TmpInv, [Next]_vars PROVE TmpInv'
    OBVIOUS
  <1> USE StoreAssumption DEF TypeOK, TmpInv, memVars, fileVars, Writers, Requests
  <1>1. CASE LoadMissing
    BY <1>1 DEF LoadMissing
  <1>2. CASE LoadFile
    BY <1>2 DEF LoadFile, ControlInv
  <1>3. ASSUME NEW r \in Mutators, Mutate(r) PROVE TmpInv'
    BY <1>3 DEF Mutate, Refused, StartsPersist
  <1>4. ASSUME NEW r \in Updaters, Update(r) PROVE TmpInv'
    BY <1>4 DEF Update, Refused, StartsPersist
  <1>5. ASSUME NEW r \in Writers, WriteTmp(r) PROVE TmpInv'
    BY <1>5 DEF WriteTmp
  <1>6. ASSUME NEW r \in Writers, SyncTmp(r) PROVE TmpInv'
    BY <1>6 DEF SyncTmp, Inode
  <1>7. ASSUME NEW r \in Writers, Rename(r) PROVE TmpInv'
    BY <1>7 DEF Rename
  <1>8. ASSUME NEW r \in Writers, PersistFails(r) PROVE TmpInv'
    BY <1>8 DEF PersistFails, ReleasedLock
  <1>9. ASSUME NEW r \in Writers, Return(r) PROVE TmpInv'
    BY <1>9 DEF Return
  <1>10. ASSUME NEW c \in Readers, Snapshot(c) PROVE TmpInv'
    BY <1>10 DEF Snapshot
  <1>11. CASE ProcessCrash
    BY <1>11 DEF ProcessCrash, Stops
  <1>12. CASE PowerLoss
    BY <1>12 DEF PowerLoss, Stops
  <1>13. CASE FlushDirectory
    BY <1>13 DEF FlushDirectory
  <1>14. CASE UNCHANGED vars
    BY <1>14 DEF vars
  <1>15. QED
    BY <1>1, <1>2, <1>3, <1>4, <1>5, <1>6, <1>7, <1>8, <1>9, <1>10, <1>11, <1>12, <1>13, <1>14 DEF Next

\* A step that touches no document, starts no Mutate and refuses none keeps
\* the documents clean.
LEMMA QuietStep ==
    ASSUME CleanInv, UndoInv,
           UNCHANGED <<mem, previous>>,
           file'.doc \in {file.doc, stable.doc}, stable'.doc \in {file.doc, stable.doc},
           \A q \in Mutators : Outside(q)' => Outside(q),
           \A q \in Mutators : (lock = q /\ InPersist(q))' => lock = q /\ InPersist(q)
    PROVE  CleanInv' /\ UndoInv'
  BY DEF CleanInv, UndoInv, Clean, EditsOf

\* When the process stops, no document is left but the ones in the files.
LEMMA StopStep ==
    ASSUME TypeOK, CleanInv, Stops,
           file'.doc \in {file.doc, stable.doc, {}},
           stable'.doc \in {file.doc, stable.doc, {}}
    PROVE  CleanInv' /\ UndoInv'
  <1>1. \A q \in Mutators : Outside(q)' => Outside(q)
    BY StoreAssumption DEF Stops, Outside, TypeOK, Writers, Requests
  <1>2. mem' = {} /\ lock' = None
    BY DEF Stops
  <1>3. CleanInv'
    BY <1>1, <1>2 DEF CleanInv, Clean, EditsOf
  <1>4. UndoInv'
    BY <1>2, StoreAssumption DEF UndoInv, Writers, Requests
  <1>5. QED
    BY <1>3, <1>4

\* No step of the store brings back an edit that was refused or not yet made.
LEMMA CleanStep ==
    TypeOK /\ ControlInv /\ TmpInv /\ CleanInv /\ UndoInv /\ [Next]_vars
        => CleanInv' /\ UndoInv'
  <1> SUFFICES ASSUME TypeOK, ControlInv, TmpInv, CleanInv, UndoInv, [Next]_vars
               PROVE  CleanInv' /\ UndoInv'
    OBVIOUS
  <1> USE StoreAssumption DEF TypeOK, memVars, fileVars, Writers, Requests
  <1>1. CASE LoadMissing
    BY <1>1, EmptyIsClean DEF LoadMissing, CleanInv, UndoInv, Outside, Clean, EditsOf
  <1>2. CASE LoadFile
    BY <1>2 DEF LoadFile, CleanInv, UndoInv, Outside, InPersist, Clean, EditsOf
  <1>3. ASSUME NEW r \in Mutators, Mutate(r) PROVE CleanInv' /\ UndoInv'
    <2>1. TakesLock(r) /\ UNCHANGED <<file, stable>>
      BY <1>3 DEF Mutate
    <2>2. Clean(r, mem) /\ Clean(r, file.doc) /\ Clean(r, stable.doc)
      BY <2>1 DEF TakesLock, CleanInv, Outside
    <2>3. CASE Refused(r, mem) /\ UNCHANGED previous
      <3>1. \A q \in Mutators : Outside(q)' => Outside(q)
        BY <2>1, <2>3 DEF Refused, TakesLock, Outside
      <3>2. CleanInv'
        BY <2>1, <2>3, <3>1 DEF Refused, CleanInv, Clean, EditsOf
      <3>3. UndoInv'
        BY <2>3 DEF Refused, UndoInv
      <3>4. QED
        BY <3>2, <3>3
    <2>4. CASE StartsPersist(r) /\ previous' = mem
      <3>1. \A q \in Mutators : Outside(q)' => Outside(q) /\ q # r
        BY <2>1, <2>4 DEF StartsPersist, TakesLock, Outside, ControlInv
      <3>2. CleanInv'
        BY <2>1, <2>4, <3>1, EditsApart DEF StartsPersist, CleanInv, Clean, EditsOf
      <3>3. UndoInv'
        BY <2>1, <2>2, <2>4, <3>1 DEF StartsPersist, CleanInv, UndoInv, Clean, EditsOf
      <3>4. QED
        BY <3>2, <3>3
    <2>5. QED
      BY <1>3, <2>3, <2>4 DEF Mutate
  <1>4. ASSUME NEW r \in Updaters, Update(r) PROVE CleanInv' /\ UndoInv'
    <2>1. UNCHANGED <<previous, file, stable>>
      BY <1>4 DEF Update
    <2>2. mem' \in {mem, mem \cup FirstEdit(r), mem \cup EditsOf(r)}
      BY <1>4 DEF Update, Refused, StartsPersist
    <2>3. \A q \in Mutators : q # r /\ (Outside(q)' => Outside(q))
      BY <1>4 DEF Update, Refused, StartsPersist, Outside
    <2>4. CleanInv'
      BY <2>1, <2>2, <2>3 DEF CleanInv, Clean, EditsOf, FirstEdit
    <2>5. lock' = None \/ lock' = r
      BY <1>4 DEF Update, Refused, StartsPersist
    <2>6. UndoInv'
      BY <2>3, <2>5 DEF UndoInv
    <2>7. QED
      BY <2>4, <2>6
  <1>5. ASSUME NEW r \in Writers, WriteTmp(r) PROVE CleanInv' /\ UndoInv'
    BY <1>5, QuietStep DEF WriteTmp, Outside, InPersist
  <1>6. ASSUME NEW r \in Writers, SyncTmp(r) PROVE CleanInv' /\ UndoInv'
    BY <1>6, QuietStep DEF SyncTmp, Outside, InPersist
  <1>7. ASSUME NEW r \in Writers, Rename(r) PROVE CleanInv' /\ UndoInv'
    <2>1. file'.doc = mem /\ UNCHANGED <<mem, previous, stable, lock, result>>
      BY <1>7 DEF Rename, TmpInv
    <2>2. lock = r /\ phase' = [phase EXCEPT ![r] = "return"]
      BY <1>7 DEF Rename
    <2>3. \A q \in Mutators : Outside(q)' => Outside(q)
      BY <2>1, <2>2 DEF Outside
    <2>4. CleanInv'
      BY <2>1, <2>3 DEF CleanInv, Clean, EditsOf
    <2>5. UndoInv'
      BY <2>1, <2>2 DEF UndoInv, InPersist
    <2>6. QED
      BY <2>4, <2>5
  <1>8. ASSUME NEW r \in Writers, PersistFails(r) PROVE CleanInv' /\ UndoInv'
    <2>1. lock = r /\ InPersist(r) /\ lock' = None /\ UNCHANGED <<file, stable, previous>>
      BY <1>8 DEF PersistFails, ReleasedLock
    <2>2. \A q \in Mutators : Outside(q)' => Outside(q) \/ q = r
      BY <1>8 DEF PersistFails, Outside
    <2>3. UndoInv'
      BY <2>1 DEF UndoInv
    <2>4. CASE r \in Mutators
      <3>1. mem' = previous
        BY <1>8, <2>4 DEF PersistFails, AfterFailure
      <3>2. \A q \in Mutators : Outside(q)' => Clean(q, previous)
        BY <2>1, <2>2, <2>4 DEF UndoInv
      <3>3. CleanInv'
        BY <2>1, <2>2, <2>4, <3>1, <3>2 DEF CleanInv, UndoInv, Clean, EditsOf
      <3>4. QED
        BY <2>3, <3>3
    <2>5. CASE r \notin Mutators
      <3>1. mem' \in {{}, mem}
        BY <1>8, <2>5 DEF PersistFails, AfterFailure
      <3>2. CleanInv'
        BY <2>1, <2>2, <2>5, <3>1 DEF CleanInv, Clean, EditsOf
      <3>3. QED
        BY <2>3, <3>2
    <2>6. QED
      BY <2>4, <2>5
  <1>9. ASSUME NEW r \in Writers, Return(r) PROVE CleanInv' /\ UndoInv'
    BY <1>9, QuietStep DEF Return, Outside, InPersist
  <1>10. ASSUME NEW c \in Readers, Snapshot(c) PROVE CleanInv' /\ UndoInv'
    BY <1>10, QuietStep DEF Snapshot, Outside, InPersist
  <1>11. CASE ProcessCrash
    BY <1>11, StopStep DEF ProcessCrash
  <1>12. CASE PowerLoss
    <2>1. file'.doc \in {file.doc, stable.doc, {}} /\ stable'.doc = file'.doc
      BY <1>12 DEF PowerLoss, Survivors, Torn
    <2>2. QED
      BY <1>12, <2>1, StopStep DEF PowerLoss
  <1>13. CASE FlushDirectory
    BY <1>13, QuietStep DEF FlushDirectory, Outside, InPersist
  <1>14. CASE UNCHANGED vars
    BY <1>14, QuietStep DEF vars, Outside, InPersist
  <1>15. QED
    BY <1>1, <1>2, <1>3, <1>4, <1>5, <1>6, <1>7, <1>8, <1>9, <1>10, <1>11, <1>12, <1>13, <1>14 DEF Next

\* In the beginning there is no file, no document and no edit.
LEMMA CleanStart == Init => TmpInv /\ CleanInv /\ UndoInv
  BY StoreAssumption DEF Init, TmpInv, CleanInv, UndoInv, Clean, NoFile, Writers, Requests

\* The rollback of Mutate: whatever other requests, readers, crashes and power
\* losses come in between, a refused Mutate is nowhere, now or after a restart.
THEOREM RefusedLeavesNothing == Spec => []RefusedMutateLeavesNothing
<1>1. CleanInv => RefusedMutateLeavesNothing
  BY DEF CleanInv, RefusedMutateLeavesNothing, Outside, Clean
<1>2. QED
  BY <1>1, ControlCorrect, CleanStart, TmpStep, CleanStep, PTL DEF Spec

-----------------------------------------------------------------------------
(***************************************************************************)
(* The readers.  While a Mutate persists, the lock keeps its edits from    *)
(* every reader; when it is refused, they were never seen.                 *)
(***************************************************************************)
Unseen(q) == Outside(q) \/ InPersist(q)
ViewInv == \A c \in Readers, q \in Mutators : Unseen(q) => Clean(q, view[c])

\* A reader is served only while nobody persists, so it sees no edit in doubt.
LEMMA ViewStep == TypeOK /\ ControlInv /\ CleanInv /\ ViewInv /\ [Next]_vars => ViewInv'
  <1> SUFFICES ASSUME TypeOK, ControlInv, CleanInv, ViewInv, [Next]_vars PROVE ViewInv'
    OBVIOUS
  <1>1. CASE \E c \in Readers : Snapshot(c)
    <2>1. PICK c \in Readers : Snapshot(c)
      BY <1>1
    <2>2. \A q \in Mutators : Unseen(q)' => Unseen(q) /\ Clean(q, mem)
      BY <2>1, StoreAssumption
         DEF Snapshot, memVars, Unseen, Outside, InPersist, ControlInv, CleanInv, Writers, Requests
    <2>3. view' = [view EXCEPT ![c] = mem]
      BY <2>1 DEF Snapshot
    <2>4. QED
      BY <2>2, <2>3 DEF ViewInv, TypeOK, Clean, EditsOf
  <1>2. CASE ~ \E c \in Readers : Snapshot(c)
    <2>1. view' = view
      BY <1>2 DEF Next, vars, LoadMissing, LoadFile, Mutate, Update, WriteTmp, SyncTmp, Rename,
                  PersistFails, Return, ProcessCrash, PowerLoss, Stops, FlushDirectory
    <2>2. \A q \in Mutators : Unseen(q)' => Unseen(q)
      <3> USE StoreAssumption DEF Unseen, Outside, InPersist, TypeOK, memVars, Writers, Requests
      <3>1. CASE LoadMissing \/ LoadFile \/ FlushDirectory \/ UNCHANGED vars
        BY <3>1 DEF LoadMissing, LoadFile, FlushDirectory, vars
      <3>2. ASSUME NEW r \in Requests, Mutate(r) \/ Update(r)
            PROVE  \A q \in Mutators : Unseen(q)' => Unseen(q)
        BY <3>2 DEF Mutate, Update, TakesLock, Refused, StartsPersist
      <3>3. ASSUME NEW r \in Writers, WriteTmp(r) \/ SyncTmp(r) \/ Rename(r)
            PROVE  \A q \in Mutators : Unseen(q)' => Unseen(q)
        BY <3>3 DEF WriteTmp, SyncTmp, Rename
      <3>4. ASSUME NEW r \in Writers, PersistFails(r) \/ Return(r)
            PROVE  \A q \in Mutators : Unseen(q)' => Unseen(q)
        BY <3>4 DEF PersistFails, Return
      <3>5. CASE ProcessCrash \/ PowerLoss
        BY <3>5 DEF ProcessCrash, PowerLoss, Stops
      <3>6. QED
        BY <1>2, <3>1, <3>2, <3>3, <3>4, <3>5 DEF Next
    <2>3. QED
      BY <2>1, <2>2 DEF ViewInv
  <1>3. QED
    BY <1>1, <1>2

\* No reader is ever given a document with an edit that is later rolled back.
THEOREM NoDirtyReads == Spec => []NoDirtyRead
<1>1. Init => ViewInv
  BY DEF Init, ViewInv, Clean
<1>2. ViewInv => NoDirtyRead
  BY DEF ViewInv, NoDirtyRead, Unseen, Outside, Clean
<1>3. QED
  BY <1>1, <1>2, ControlCorrect, CleanStart, TmpStep, CleanStep, ViewStep, PTL DEF Spec

-----------------------------------------------------------------------------
(***************************************************************************)
(* Memory and file.  Everything in the file is in memory, and everything   *)
(* else in memory was left there by an Update that failed, except for the  *)
(* edits of the writer inside persist.                                     *)
(***************************************************************************)
Explained(d) == \A e \in d \ file.doc : e[1] \in Updaters /\ result[e[1]] = "error"

NoneIsEmpty ==
    /\ file.kind = "none" => file.doc = {}
    /\ stable.kind = "none" => stable.doc = {}

DivergenceInv ==
    /\ server # "down" => file.doc \subseteq mem
    /\ server = "up" /\ lock = None => Explained(mem)
    /\ \A r \in Writers :
          /\ lock = r /\ phase[r] = "return" => mem = file.doc
          /\ lock = r /\ InPersist(r) =>
                /\ r \in Mutators => file.doc \subseteq previous /\ Explained(previous)
                /\ r \in Updaters => Explained(mem \ EditsOf(r))
                /\ r \in Requests => EditsOf(r) \subseteq mem

\* A missing data file stands for the empty document, whatever is renamed or lost.
LEMMA NoneStep == NoneIsEmpty /\ FileInv /\ [Next]_vars => NoneIsEmpty'
  <1> SUFFICES ASSUME NoneIsEmpty, FileInv, [Next]_vars PROVE NoneIsEmpty'
    OBVIOUS
  <1>1. CASE \E r \in Writers : Rename(r)
    BY <1>1 DEF Rename, NoneIsEmpty, FileInv
  <1>2. CASE PowerLoss
    <2>1. file' \in {file, stable} /\ stable' = file'
      BY <1>2 DEF PowerLoss, Survivors, FileInv
    <2>2. QED
      BY <2>1 DEF NoneIsEmpty
  <1>3. CASE FlushDirectory
    BY <1>3 DEF FlushDirectory, NoneIsEmpty
  <1>4. CASE UNCHANGED <<file, stable>>
    BY <1>4 DEF NoneIsEmpty
  <1>5. QED
    BY <1>1, <1>2, <1>3, <1>4 DEF Next, vars, fileVars, LoadMissing, LoadFile, Mutate, Update,
       WriteTmp, SyncTmp, PersistFails, Return, Snapshot, ProcessCrash

\* Each step keeps the differences of memory and file explained.
LEMMA DivergenceStep ==
    TypeOK /\ ControlInv /\ TmpInv /\ NoneIsEmpty /\ DivergenceInv /\ [Next]_vars
        => DivergenceInv'
  <1> SUFFICES ASSUME TypeOK, ControlInv, TmpInv, NoneIsEmpty, DivergenceInv, [Next]_vars
               PROVE  DivergenceInv'
    OBVIOUS
  <1> USE StoreAssumption DEF TypeOK, memVars, fileVars, Writers, Requests
  <1>1. CASE LoadMissing
    BY <1>1 DEF LoadMissing, DivergenceInv, NoneIsEmpty, InPersist
  <1>2. CASE LoadFile
    BY <1>2 DEF LoadFile, DivergenceInv, Explained, ControlInv, InPersist
  <1>3. ASSUME NEW r \in Mutators, Mutate(r) PROVE DivergenceInv'
    <2>1. TakesLock(r) /\ UNCHANGED <<server, file>>
      BY <1>3 DEF Mutate
    <2>2. file.doc \subseteq mem /\ Explained(mem)
      BY <2>1 DEF TakesLock, DivergenceInv
    <2>3. CASE Refused(r, mem)
      BY <2>1, <2>2, <2>3 DEF Refused, TakesLock, DivergenceInv, Explained
    <2>4. CASE StartsPersist(r) /\ previous' = mem
      BY <2>1, <2>2, <2>4 DEF StartsPersist, TakesLock, DivergenceInv, Explained
    <2>5. QED
      BY <1>3, <2>3, <2>4 DEF Mutate
  <1>4. ASSUME NEW r \in Updaters, Update(r) PROVE DivergenceInv'
    <2>1. TakesLock(r) /\ UNCHANGED <<server, file>>
      BY <1>4 DEF Update
    <2>2. file.doc \subseteq mem /\ Explained(mem)
      BY <2>1 DEF TakesLock, DivergenceInv
    <2>3. CASE Refused(r, mem) \/ Refused(r, mem \cup FirstEdit(r))
      BY <2>1, <2>2, <2>3 DEF Refused, TakesLock, DivergenceInv, Explained, FirstEdit
    <2>4. CASE StartsPersist(r)
      BY <2>1, <2>2, <2>4 DEF StartsPersist, TakesLock, DivergenceInv, Explained
    <2>5. QED
      BY <1>4, <2>3, <2>4 DEF Update
  <1>5. ASSUME NEW r \in Writers, WriteTmp(r) PROVE DivergenceInv'
    BY <1>5 DEF WriteTmp, DivergenceInv, Explained, InPersist
  <1>6. ASSUME NEW r \in Writers, SyncTmp(r) PROVE DivergenceInv'
    BY <1>6 DEF SyncTmp, DivergenceInv, Explained, InPersist
  <1>7. ASSUME NEW r \in Writers, Rename(r) PROVE DivergenceInv'
    <2>1. /\ file'.doc = mem /\ mem' = mem
          /\ lock = r /\ lock' = r /\ phase' = [phase EXCEPT ![r] = "return"]
      BY <1>7 DEF Rename, TmpInv
    <2>2. QED
      BY <2>1 DEF DivergenceInv, InPersist
  <1>8. ASSUME NEW r \in Writers, PersistFails(r) PROVE DivergenceInv'
    <2>1. lock = r /\ InPersist(r) /\ lock' = None /\ UNCHANGED file /\ server # "down"
      BY <1>8 DEF PersistFails, ReleasedLock, ControlInv
    <2>2. CASE r = Boot
      BY <1>8, <2>1, <2>2 DEF PersistFails, DivergenceInv
    <2>3. CASE r \in Mutators
      <3>1. /\ mem' = previous /\ server' = server
            /\ result' = [result EXCEPT ![r] = "error"]
        BY <1>8, <2>3 DEF PersistFails, AfterFailure, FailureAnswer
      <3>2. file.doc \subseteq previous /\ Explained(previous)
        BY <2>1, <2>3 DEF DivergenceInv
      <3>3. QED
        BY <2>1, <3>1, <3>2 DEF DivergenceInv, Explained
    <2>4. CASE r \in Updaters
      <3>1. /\ mem' = mem /\ server' = server
            /\ result' = [result EXCEPT ![r] = "error"]
        BY <1>8, <2>4 DEF PersistFails, AfterFailure, FailureAnswer
      <3>2. file.doc \subseteq mem /\ Explained(mem \ EditsOf(r))
        BY <2>1, <2>4 DEF DivergenceInv
      <3>3. Explained(mem)'
        BY <2>1, <2>4, <3>1, <3>2 DEF Explained, EditsOf
      <3>4. QED
        BY <2>1, <3>1, <3>2, <3>3 DEF DivergenceInv
    <2>5. QED
      BY <2>2, <2>3, <2>4
  <1>9. ASSUME NEW r \in Writers, Return(r) PROVE DivergenceInv'
    BY <1>9 DEF Return, DivergenceInv, Explained
  <1>10. ASSUME NEW c \in Readers, Snapshot(c) PROVE DivergenceInv'
    BY <1>10 DEF Snapshot, DivergenceInv, Explained, InPersist
  <1>11. CASE ProcessCrash
    BY <1>11 DEF ProcessCrash, Stops, DivergenceInv
  <1>12. CASE PowerLoss
    BY <1>12 DEF PowerLoss, Stops, DivergenceInv
  <1>13. CASE FlushDirectory
    BY <1>13 DEF FlushDirectory, DivergenceInv, Explained, InPersist
  <1>14. CASE UNCHANGED vars
    BY <1>14 DEF vars, DivergenceInv, Explained, InPersist
  <1>15. QED
    BY <1>1, <1>2, <1>3, <1>4, <1>5, <1>6, <1>7, <1>8, <1>9, <1>10, <1>11, <1>12, <1>13, <1>14 DEF Next

\* The invariants about memory, temporary file and data file, together.
LEMMA DocumentsFit == Spec => [](TypeOK /\ ControlInv /\ TmpInv /\ DivergenceInv)
<1>1. Init => NoneIsEmpty /\ DivergenceInv
  BY StoreAssumption DEF Init, NoneIsEmpty, DivergenceInv, InPersist, NoFile, Writers
<1>2. QED
  BY <1>1, ControlCorrect, FilesSound, CleanStart, TmpStep, NoneStep, DivergenceStep, PTL DEF Spec

\* Memory and file differ, while nobody writes, only by failed Updates: the
\* price of writing the live document, and the only one.
THEOREM DivergenceExplained == Spec => []DivergenceIsFailedUpdate
<1>1. DivergenceInv => DivergenceIsFailedUpdate
  BY DEF DivergenceInv, DivergenceIsFailedUpdate, Explained
<1>2. QED
  BY <1>1, DocumentsFit, PTL

-----------------------------------------------------------------------------
(***************************************************************************)
(* Durability.  An accepted write reached the file, and every later        *)
(* document that replaces the file contains it.                            *)
(***************************************************************************)
AcceptedInv ==
    losses = 0 =>
        \A r \in Requests :
            (lock = r /\ phase[r] = "return") \/ result[r] = "ok" => EditsOf(r) \subseteq file.doc

\* No rename that follows an accepted write loses its edits.
LEMMA AcceptedStep ==
    TypeOK /\ ControlInv /\ TmpInv /\ DivergenceInv /\ AcceptedInv /\ [Next]_vars
        => AcceptedInv'
  <1> SUFFICES ASSUME TypeOK, ControlInv, TmpInv, DivergenceInv, AcceptedInv, [Next]_vars
               PROVE  AcceptedInv'
    OBVIOUS
  <1> USE StoreAssumption DEF TypeOK, AcceptedInv, memVars, fileVars, faultVars, Writers, Requests
  <1>1. CASE LoadMissing \/ LoadFile \/ FlushDirectory \/ UNCHANGED vars
    BY <1>1 DEF LoadMissing, LoadFile, FlushDirectory, ControlInv, vars
  <1>2. ASSUME NEW r \in Requests, Mutate(r) \/ Update(r) PROVE AcceptedInv'
    BY <1>2 DEF Mutate, Update, TakesLock, Refused, StartsPersist
  <1>3. ASSUME NEW r \in Writers, WriteTmp(r) \/ SyncTmp(r) PROVE AcceptedInv'
    BY <1>3 DEF WriteTmp, SyncTmp
  <1>4. ASSUME NEW r \in Writers, Rename(r) PROVE AcceptedInv'
    <2>1. lock = r /\ phase[r] = "rename" /\ server # "down" /\ r # None
      BY <1>4 DEF Rename, ControlInv
    <2>2. file'.doc = mem /\ UNCHANGED <<lock, result, losses>>
      BY <1>4 DEF Rename, TmpInv
    <2>3. file.doc \subseteq mem /\ (r \in Requests => EditsOf(r) \subseteq mem)
      BY <2>1 DEF DivergenceInv, InPersist
    <2>4. \A q \in Requests : lock' = q => q = r
      BY <2>1, <2>2
    <2>5. QED
      BY <2>2, <2>3, <2>4 DEF EditsOf
  <1>5. ASSUME NEW r \in Writers, PersistFails(r) PROVE AcceptedInv'
    BY <1>5 DEF PersistFails, ReleasedLock, FailureAnswer
  <1>6. ASSUME NEW r \in Writers, Return(r) PROVE AcceptedInv'
    BY <1>6 DEF Return
  <1>7. ASSUME NEW c \in Readers, Snapshot(c) PROVE AcceptedInv'
    BY <1>7 DEF Snapshot
  <1>8. CASE ProcessCrash
    BY <1>8 DEF ProcessCrash, Stops
  <1>9. CASE PowerLoss
    BY <1>9 DEF PowerLoss
  <1>10. QED
    BY <1>1, <1>2, <1>3, <1>4, <1>5, <1>6, <1>7, <1>8, <1>9 DEF Next

\* As long as the machine keeps its power, every request that was answered
\* with success is in the file the next start loads, crashes or not.
THEOREM AcceptedIsKept == Spec => []AcceptedIsInFile
<1>1. Init => AcceptedInv
  BY StoreAssumption DEF Init, AcceptedInv, Writers, Requests
<1>2. AcceptedInv => AcceptedIsInFile
  BY DEF AcceptedInv, AcceptedIsInFile
<1>3. QED
  BY <1>1, <1>2, DocumentsFit, AcceptedStep, PTL DEF Spec

-----------------------------------------------------------------------------
(***************************************************************************)
(* The store is a durable document.  The rename is the instant at which a  *)
(* write happens: before it, the document Mutate copied is what everybody  *)
(* can get; after it, the same document with both edits of the writer.     *)
(* An Update is in the live document from its start; until its rename it   *)
(* is in no file.                                                          *)
(***************************************************************************)
CopyInv ==
    /\ lock = Boot => mem = {}
    /\ \A r \in Mutators : lock = r /\ InPersist(r) => mem = previous \cup EditsOf(r)
    /\ \A r \in Requests : lock = r => EditsOf(r) \subseteq mem

\* Who holds the lock has made its edits; Mutate's working copy is the previous
\* document and these edits.
LEMMA CopyStep == TypeOK /\ ControlInv /\ CopyInv /\ [Next]_vars => CopyInv'
  <1> SUFFICES ASSUME TypeOK, ControlInv, CopyInv, [Next]_vars PROVE CopyInv'
    OBVIOUS
  <1> USE StoreAssumption DEF TypeOK, CopyInv, InPersist, memVars, EditsOf, Writers, Requests
  <1>1. CASE LoadMissing
    BY <1>1 DEF LoadMissing
  <1>2. CASE LoadFile
    BY <1>2 DEF LoadFile, ControlInv
  <1>3. ASSUME NEW r \in Mutators, Mutate(r) PROVE CopyInv'
    BY <1>3 DEF Mutate, Refused, StartsPersist
  <1>4. ASSUME NEW r \in Updaters, Update(r) PROVE CopyInv'
    BY <1>4 DEF Update, Refused, StartsPersist
  <1>5. ASSUME NEW r \in Writers, WriteTmp(r) \/ SyncTmp(r) \/ Rename(r) PROVE CopyInv'
    BY <1>5 DEF WriteTmp, SyncTmp, Rename
  <1>6. ASSUME NEW r \in Writers, PersistFails(r) \/ Return(r) PROVE CopyInv'
    BY <1>6 DEF PersistFails, Return, ReleasedLock
  <1>7. CASE (\E c \in Readers : Snapshot(c)) \/ FlushDirectory \/ UNCHANGED vars
    BY <1>7 DEF Snapshot, FlushDirectory, vars
  <1>8. CASE ProcessCrash \/ PowerLoss
    BY <1>8 DEF ProcessCrash, PowerLoss, Stops
  <1>9. QED
    BY <1>1, <1>2, <1>3, <1>4, <1>5, <1>6, <1>7, <1>8 DEF Next

\* An Update that has not started is nowhere; one that persists is in no file.
Fresh(q) ==
    /\ phase[q] = "idle" =>
          /\ Clean(q, mem) /\ Clean(q, file.doc) /\ Clean(q, stable.doc)
          /\ \A r \in Mutators : lock = r /\ InPersist(r) => Clean(q, previous)
    /\ lock = q /\ InPersist(q) => Clean(q, file.doc) /\ Clean(q, stable.doc)

FreshInv == \A q \in Updaters : Fresh(q)

\* Nobody else's rename, rollback or crash brings an Update's edits to a file.
LEMMA FreshStep ==
    TypeOK /\ ControlInv /\ FileInv /\ TmpInv /\ FreshInv /\ [Next]_vars => FreshInv'
  <1> SUFFICES ASSUME TypeOK, ControlInv, FileInv, TmpInv, FreshInv, [Next]_vars,
                      NEW q \in Updaters
               PROVE  Fresh(q)'
    BY DEF FreshInv
  <1>0. Fresh(q)
    BY DEF FreshInv
  <1> USE <1>0, StoreAssumption DEF TypeOK, Fresh, InPersist, memVars, fileVars, Writers, Requests
  <1>1. CASE LoadMissing
    BY <1>1, EmptyIsClean DEF LoadMissing
  <1>2. CASE LoadFile
    BY <1>2 DEF LoadFile, ControlInv
  <1>3. ASSUME NEW r \in Mutators, Mutate(r) PROVE Fresh(q)'
    <2>1. TakesLock(r) /\ q # r /\ UNCHANGED <<file, stable>> /\ phase'[q] = phase[q]
      BY <1>3 DEF Mutate, Refused, StartsPersist
    <2>2. Clean(q, mem)' <=> Clean(q, mem)
      BY <1>3, <2>1, EditsApart DEF Mutate, Refused, StartsPersist, Clean, EditsOf
    <2>3. lock' = None \/ (lock' = r /\ previous' = mem)
      BY <1>3 DEF Mutate, Refused, StartsPersist
    <2>4. Clean(q, mem) /\ previous' = mem => Clean(q, previous)'
      BY DEF Clean, EditsOf
    <2>5. Clean(q, file.doc)' <=> Clean(q, file.doc)
      BY <2>1 DEF Clean, EditsOf
    <2>6. Clean(q, stable.doc)' <=> Clean(q, stable.doc)
      BY <2>1 DEF Clean, EditsOf
    <2> HIDE DEF Clean
    <2>7. QED
      BY <2>1, <2>2, <2>3, <2>4, <2>5, <2>6
  <1>4. ASSUME NEW r \in Updaters, Update(r) PROVE Fresh(q)'
    <2>1. TakesLock(r) /\ UNCHANGED <<file, stable>> /\ (lock' = None \/ lock' = r)
      BY <1>4 DEF Update, Refused, StartsPersist
    <2>2. Clean(q, file.doc)' <=> Clean(q, file.doc)
      BY <2>1 DEF Clean, EditsOf
    <2>3. Clean(q, stable.doc)' <=> Clean(q, stable.doc)
      BY <2>1 DEF Clean, EditsOf
    <2>4. CASE q = r
      <3>1. phase[q] = "idle" /\ phase'[q] # "idle"
        BY <1>4, <2>1, <2>4 DEF Update, TakesLock, Refused, StartsPersist
      <3>2. QED
        BY <2>2, <2>3, <3>1
    <2>5. CASE q # r
      <3>1. phase'[q] = phase[q] /\ (Clean(q, mem) => Clean(q, mem)')
        BY <1>4, <2>5, EditsApart DEF Update, Refused, StartsPersist, Clean, EditsOf, FirstEdit
      <3>2. QED
        BY <2>1, <2>2, <2>3, <2>5, <3>1
    <2>6. QED
      BY <2>4, <2>5
  <1>5. ASSUME NEW r \in Writers, WriteTmp(r) \/ SyncTmp(r) PROVE Fresh(q)'
    BY <1>5 DEF WriteTmp, SyncTmp
  <1>6. ASSUME NEW r \in Writers, Rename(r) PROVE Fresh(q)'
    <2>1. file'.doc = mem /\ mem' = mem /\ stable' = stable /\ lock = r /\ lock' = r
      BY <1>6 DEF Rename, TmpInv
    <2>2. phase' = [phase EXCEPT ![r] = "return"]
      BY <1>6 DEF Rename
    <2>3. QED
      BY <2>1, <2>2
  <1>7. ASSUME NEW r \in Writers, PersistFails(r) PROVE Fresh(q)'
    BY <1>7, EmptyIsClean DEF PersistFails, AfterFailure, ReleasedLock
  <1>8. ASSUME NEW r \in Writers, Return(r) PROVE Fresh(q)'
    BY <1>8 DEF Return
  <1>9. CASE (\E c \in Readers : Snapshot(c)) \/ UNCHANGED vars
    BY <1>9 DEF Snapshot, vars
  <1>10. CASE FlushDirectory
    BY <1>10 DEF FlushDirectory
  <1>11. CASE ProcessCrash
    BY <1>11, EmptyIsClean DEF ProcessCrash, Stops
  <1>12. CASE PowerLoss
    <2>1. file' \in {file, stable} /\ stable' = file'
      BY <1>12 DEF PowerLoss, Survivors, FileInv
    <2>2. QED
      BY <1>12, <2>1, EmptyIsClean DEF PowerLoss, Stops
  <1>13. QED
    BY <1>1, <1>2, <1>3, <1>4, <1>5, <1>6, <1>7, <1>8, <1>9, <1>10, <1>11, <1>12 DEF Next

\* All invariants of this module that the refinement rests on.
StoreInv ==
    /\ TypeOK /\ ControlInv /\ FileInv /\ NoneIsEmpty /\ TmpInv
    /\ CleanInv /\ UndoInv /\ FreshInv /\ DivergenceInv /\ CopyInv

\* Each step of the store is a step of the durable document, or none.
LEMMA DurableStep ==
    ASSUME StoreInv, [Next]_vars
    PROVE  [Durable!DocNext]_(Durable!docVars)
  <1> DEFINE answer == [r \in Requests |-> result[r]]
  <1> USE StoreAssumption DEF TypeOK, StoreInv, memVars, fileVars, Writers, Requests,
          Durable!docVars
  <1>1. ASSUME UNCHANGED <<Live, file, stable, result, view>> PROVE UNCHANGED Durable!docVars
    BY <1>1
  <1>2. CASE LoadMissing \/ LoadFile
    <2>1. Live = file.doc /\ Live' = file.doc /\ UNCHANGED <<file, stable, result, view>>
      BY <1>2 DEF LoadMissing, LoadFile, Live, ControlInv, NoneIsEmpty
    <2>2. QED
      BY <1>1, <2>1
  <1>3. CASE UNCHANGED vars
    BY <1>1, <1>3 DEF vars, Live, InPersist
  <1>4. CASE ProcessCrash
    <2>1. Live' = file.doc /\ UNCHANGED <<file, stable, result, view>>
      BY <1>4 DEF ProcessCrash, Stops, Live
    <2>2. Durable!Restart
      BY <2>1 DEF Durable!Restart
    <2>3. QED
      BY <2>2 DEF Durable!DocNext
  <1>5. CASE PowerLoss
    <2>1. file' \in {file, stable} /\ stable' = file'
      BY <1>5 DEF PowerLoss, Survivors, FileInv
    <2>2. Live' = file'.doc /\ UNCHANGED <<result, view>>
      BY <1>5 DEF PowerLoss, Stops, Live
    <2>3. Durable!PowerFails
      BY <2>1, <2>2 DEF Durable!PowerFails
    <2>4. QED
      BY <2>3 DEF Durable!DocNext
  <1>6. CASE FlushDirectory
    <2>1. stable' = file /\ UNCHANGED <<Live, file, result, view>>
      BY <1>6 DEF FlushDirectory, Live, InPersist
    <2>2. Durable!Flush
      BY <2>1 DEF Durable!Flush
    <2>3. QED
      BY <2>2 DEF Durable!DocNext
  <1>7. ASSUME NEW r \in Mutators, Mutate(r)
        PROVE  Durable!DocNext \/ UNCHANGED Durable!docVars
    <2>1. /\ server = "up" /\ lock = None /\ phase[r] = "idle"
          /\ UNCHANGED <<server, file, stable, view>>
      BY <1>7 DEF Mutate, TakesLock
    <2>2. Live = mem
      BY <2>1 DEF Live
    <2>3. CASE Refused(r, mem)
      <3>1. Live' = mem /\ result' = [result EXCEPT ![r] = "error"]
        BY <2>1, <2>3 DEF Refused, Live
      <3>2. result[r] = "none" /\ Clean(r, mem) /\ Clean(r, file.doc) /\ Clean(r, stable.doc)
        BY <2>1 DEF ControlInv, CleanInv, Outside
      <3>3. Durable!Refuse(r)
        BY <2>1, <2>2, <3>1, <3>2 DEF Durable!Refuse, Clean
      <3>4. QED
        BY <3>3 DEF Durable!DocNext
    <2>4. CASE StartsPersist(r) /\ previous' = mem
      <3>1. Live' = mem /\ UNCHANGED result
        BY <2>1, <2>4 DEF StartsPersist, Live, InPersist
      <3>2. QED
        BY <1>1, <2>1, <2>2, <3>1
    <2>5. QED
      BY <1>7, <2>3, <2>4 DEF Mutate
  <1>8. ASSUME NEW r \in Updaters, Update(r)
        PROVE  Durable!DocNext \/ UNCHANGED Durable!docVars
    <2>1. /\ server = "up" /\ lock = None /\ phase[r] = "idle"
          /\ UNCHANGED <<server, file, stable, view>>
      BY <1>8 DEF Update, TakesLock
    <2>2. Live = mem /\ Live' = mem'
      BY <1>8, <2>1 DEF Live, Update, Refused, StartsPersist
    <2>3. result[r] = "none"
      BY <2>1 DEF ControlInv
    <2>4. ASSUME NEW part \in SUBSET EditsOf(r), Refused(r, mem \cup part)
          PROVE  Durable!Refuse(r)
      <3>1. Clean(r, file.doc) /\ Clean(r, stable.doc)
        BY <2>1 DEF FreshInv, Fresh
      <3>2. Live' = Live \cup part /\ result' = [result EXCEPT ![r] = "error"]
        BY <2>2, <2>4 DEF Refused
      <3>3. QED
        BY <2>1, <2>3, <3>1, <3>2 DEF Durable!Refuse, Clean
    <2>5. CASE Refused(r, mem)
      <3>1. {} \in SUBSET EditsOf(r) /\ Refused(r, mem \cup {})
        BY <2>5
      <3>2. Durable!Refuse(r)
        BY <2>4, <3>1
      <3>3. QED
        BY <3>2 DEF Durable!DocNext
    <2>6. CASE Refused(r, mem \cup FirstEdit(r))
      <3>1. FirstEdit(r) \in SUBSET EditsOf(r)
        BY DEF FirstEdit, EditsOf
      <3>2. Durable!Refuse(r)
        BY <2>4, <2>6, <3>1
      <3>3. QED
        BY <3>2 DEF Durable!DocNext
    <2>7. CASE StartsPersist(r)
      <3>1. Live' = Live \cup EditsOf(r) /\ UNCHANGED result
        BY <2>2, <2>7 DEF StartsPersist
      <3>2. Durable!Touch(r)
        BY <2>1, <2>3, <3>1 DEF Durable!Touch
      <3>3. QED
        BY <3>2 DEF Durable!DocNext
    <2>8. QED
      BY <1>8, <2>5, <2>6, <2>7 DEF Update
  <1>9. ASSUME NEW r \in Writers, WriteTmp(r) \/ SyncTmp(r)
        PROVE  UNCHANGED Durable!docVars
    <2>1. UNCHANGED <<Live, file, stable, result, view>>
      BY <1>9 DEF WriteTmp, SyncTmp, Live, InPersist
    <2>2. QED
      BY <1>1, <2>1
  <1>10. ASSUME NEW r \in Writers, Rename(r)
         PROVE  Durable!DocNext \/ UNCHANGED Durable!docVars
    <2>1. /\ lock = r /\ phase[r] = "rename" /\ server # "down" /\ InPersist(r)
          /\ file'.doc = mem /\ UNCHANGED <<server, lock, mem, stable, result, view>>
          /\ phase' = [phase EXCEPT ![r] = "return"]
      BY <1>10 DEF Rename, TmpInv, ControlInv, InPersist
    <2>2. Live' = mem
      BY <2>1 DEF Live, InPersist
    <2>3. CASE r = Boot
      <3>1. file.doc = {} /\ mem = {} /\ Live = {}
        BY <2>1, <2>3 DEF CopyInv, DivergenceInv, Live
      <3>2. QED
        BY <2>1, <2>2, <3>1
    <2>4. CASE r \in Mutators
      <3>1. Live = previous /\ mem = previous \cup EditsOf(r)
        BY <2>1, <2>4 DEF CopyInv, Live
      <3>2. result[r] = "none" /\ EditsOf(r) \cap previous = {}
        BY <2>1, <2>4 DEF ControlInv, UndoInv, InPersist, Clean
      <3>3. Durable!Commit(r)
        BY <2>1, <2>2, <2>4, <3>1, <3>2 DEF Durable!Commit
      <3>4. QED
        BY <2>4, <3>3 DEF Durable!DocNext
    <2>5. CASE r \in Updaters
      <3>1. Live = mem /\ EditsOf(r) \subseteq mem
        BY <2>1, <2>5 DEF CopyInv, Live
      <3>2. result[r] = "none"
        BY <2>1, <2>5 DEF ControlInv
      <3>3. Durable!Save(r)
        BY <2>1, <2>2, <2>5, <3>1, <3>2 DEF Durable!Save
      <3>4. QED
        BY <2>5, <3>3 DEF Durable!DocNext
    <2>6. QED
      BY <2>3, <2>4, <2>5
  <1>11. ASSUME NEW r \in Writers, PersistFails(r)
         PROVE  Durable!DocNext \/ UNCHANGED Durable!docVars
    <2>1. /\ lock = r /\ InPersist(r) /\ server # "down" /\ lock' = None
          /\ UNCHANGED <<file, stable, view>>
      BY <1>11 DEF PersistFails, ReleasedLock, ControlInv
    <2>2. CASE r = Boot
      <3>1. /\ file.doc = {} /\ Live = {}
            /\ server' = "down" /\ result' = [result EXCEPT ![r] = "none"]
        BY <1>11, <2>1, <2>2 DEF PersistFails, CopyInv, DivergenceInv, Live
      <3>2. Live' = {}
        BY <2>1, <3>1 DEF Live
      <3>3. QED
        BY <2>1, <2>2, <3>1, <3>2
    <2>3. CASE r \in Requests
      <3>1. /\ result[r] = "none" /\ result' = [result EXCEPT ![r] = "error"]
            /\ mem' = AfterFailure(r) /\ server' = server
        BY <1>11, <2>1, <2>3 DEF PersistFails, FailureAnswer, ControlInv, InPersist
      <3>2. Live' = Live
        BY <2>1, <2>3, <3>1 DEF Live, AfterFailure
      <3>3. Clean(r, file.doc) /\ Clean(r, stable.doc) /\ (r \in Mutators => Clean(r, Live))
        BY <2>1, <2>3 DEF UndoInv, FreshInv, Fresh, Live
      <3>4. r \in Updaters => {} \in SUBSET EditsOf(r) /\ Live' = Live \cup {}
        BY <3>2
      <3>5. Durable!Refuse(r)
        BY <2>1, <2>3, <3>1, <3>2, <3>3, <3>4 DEF Durable!Refuse, Clean
      <3>6. QED
        BY <2>3, <3>5 DEF Durable!DocNext
    <2>4. QED
      BY <2>2, <2>3
  <1>12. ASSUME NEW r \in Writers, Return(r)
         PROVE  Durable!DocNext \/ UNCHANGED Durable!docVars
    <2>1. /\ lock = r /\ phase[r] = "return" /\ server # "down"
          /\ lock' = None /\ server' = "up"
          /\ UNCHANGED <<mem, file, stable, view>>
          /\ result' = [result EXCEPT ![r] = "ok"]
      BY <1>12 DEF Return, ControlInv
    <2>2. Live = mem /\ Live' = mem
      BY <2>1 DEF Live, InPersist
    <2>3. CASE r = Boot
      BY <2>1, <2>2, <2>3
    <2>4. CASE r \in Requests
      <3>1. result[r] = "none" /\ EditsOf(r) \subseteq file.doc
        BY <2>1, <2>4 DEF ControlInv, CopyInv, DivergenceInv
      <3>2. Durable!Accept(r)
        BY <2>1, <2>2, <2>4, <3>1 DEF Durable!Accept
      <3>3. QED
        BY <2>4, <3>2 DEF Durable!DocNext
    <2>5. QED
      BY <2>3, <2>4
  <1>13. ASSUME NEW c \in Readers, Snapshot(c) PROVE Durable!DocNext
    <2>1. /\ server = "up" /\ lock = None /\ view' = [view EXCEPT ![c] = mem]
          /\ UNCHANGED <<server, lock, mem, previous, phase, file, stable, result>>
      BY <1>13 DEF Snapshot
    <2>2. Live = mem /\ Live' = mem
      BY <2>1 DEF Live
    <2>3. Durable!Look(c)
      BY <2>1, <2>2 DEF Durable!Look
    <2>4. QED
      BY <2>3 DEF Durable!DocNext
  <1>14. QED
    BY <1>2, <1>3, <1>4, <1>5, <1>6, <1>7, <1>8, <1>9, <1>10, <1>11, <1>12, <1>13 DEF Next

\* The store keeps the promise of DurableDocument, with any number of requests of
\* both kinds, of crashes and of power losses: no caller and no reader can tell it
\* from one document that is replaced as a whole.
THEOREM StoreIsDurable == Spec => ImplementsDurableDocument
<1>1. Init => NoneIsEmpty /\ DivergenceInv /\ CopyInv /\ FreshInv
  BY StoreAssumption, EmptyIsClean
     DEF Init, NoneIsEmpty, DivergenceInv, CopyInv, FreshInv, Fresh, InPersist, NoFile, Writers, Requests
<1>2. Spec => []StoreInv
  BY <1>1, ControlCorrect, FilesSound, CleanStart, TmpStep, CleanStep, NoneStep, DivergenceStep,
     FreshStep, CopyStep, PTL DEF Spec, StoreInv
<1>3. Init => Durable!DocInit
  BY DEF Init, Durable!DocInit, Live, NoFile, Requests, Writers
<1>4. StoreInv /\ [Next]_vars => [Durable!DocNext]_(Durable!docVars)
  BY DurableStep
<1>5. QED
  BY <1>2, <1>3, <1>4, PTL DEF Spec, ImplementsDurableDocument, Durable!DocSpec

=============================================================================
