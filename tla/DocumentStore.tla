---------------------------- MODULE DocumentStore ----------------------------
(***************************************************************************)
(* storage.Store: the document in memory behind an RWMutex, its file, and  *)
(* the two ways to write it.                                               *)
(*                                                                         *)
(*   Mutate  copy, change, normalize, validate, swap in, persist, and put  *)
(*           the previous document back when persisting fails;             *)
(*   Update  change the live document, then persist.                       *)
(*                                                                         *)
(* A document is the set of edits made to it.  Every write request makes   *)
(* two edits, so that a half-done write can be told from a whole one.      *)
(* What normalize and Validate do to a document is in ForecastDocument;    *)
(* here a refusal by the handler or by Validate is a choice.  The steps of *)
(* persist are separate, because the process may be killed, or the machine *)
(* lose power, between any two of them.                                    *)
(***************************************************************************)

EXTENDS Naturals

CONSTANTS
    Mutators,        \* requests whose handler writes through Mutate
    Updaters,        \* requests whose handler writes through Update
    Readers,         \* requests that call Snapshot or Marshal
    Unencodable,     \* Updaters that store a number JSON cannot express
    Boot,            \* the first start, which persists the default document
    None,            \* nobody: the value of a free lock
    MaxCrashes,      \* bound: process crashes
    MaxPowerLosses   \* bound: power losses

Requests == Mutators \cup Updaters
Writers == Requests \cup {Boot}

ASSUME StoreAssumption ==
    /\ Mutators \cap Updaters = {}
    /\ Unencodable \subseteq Updaters
    /\ Boot \notin Requests
    /\ None \notin Writers
    /\ MaxCrashes \in Nat
    /\ MaxPowerLosses \in Nat

VARIABLES
    server,        \* "down", "loading" or "up"
    mem,           \* Store.data
    lock,          \* who holds Store.mu for writing
    previous,      \* what Mutate puts back when persist fails
    phase,         \* how far each writer has come
    result,        \* what each writer was told
    view,          \* the last document each reader was given
    tmp,           \* the temporary file
    file,          \* the data file, as the running system sees it
    stable,        \* the data file a power loss may fall back to
    crashes,
    losses

memVars == <<mem, lock, previous, phase, result>>
fileVars == <<tmp, file, stable>>
faultVars == <<crashes, losses>>
vars == <<server, memVars, view, fileVars, faultVars>>

Edits == Requests \X {1, 2}
EditsOf(r) == {<<r, 1>>, <<r, 2>>}
FirstEdit(r) == {<<r, 1>>}

\* A file holds a whole document, or only a part of one: an unfinished write,
\* or one whose unsynced data was lost.
Inode == [kind : {"none", "whole", "torn"}, doc : SUBSET Edits, synced : BOOLEAN]
NoFile == [kind |-> "none", doc |-> {}, synced |-> TRUE]
Torn == [kind |-> "torn", doc |-> {}, synced |-> TRUE]

Phases == {"idle", "write", "sync", "rename", "return", "done", "lost"}
InPersist(r) == phase[r] \in {"write", "sync", "rename"}

\* json.MarshalIndent fails on NaN and infinities; nothing else in a document
\* can make it fail.
Encodable(d) == \A u \in Unencodable : EditsOf(u) \cap d = {}

TypeOK ==
    /\ server \in {"down", "loading", "up"}
    /\ mem \subseteq Edits
    /\ lock \in Writers \cup {None}
    /\ previous \subseteq Edits
    /\ phase \in [Writers -> Phases]
    /\ result \in [Writers -> {"none", "ok", "error"}]
    /\ view \in [Readers -> SUBSET Edits]
    /\ tmp \in Inode
    /\ file \in Inode
    /\ stable \in Inode
    /\ crashes \in Nat
    /\ losses \in Nat

Init ==
    /\ server = "down"
    /\ mem = {}
    /\ lock = None
    /\ previous = {}
    /\ phase = [r \in Writers |-> "idle"]
    /\ result = [r \in Writers |-> "none"]
    /\ view = [c \in Readers |-> {}]
    /\ tmp = NoFile
    /\ file = NoFile
    /\ stable = NoFile
    /\ crashes = 0
    /\ losses = 0

-----------------------------------------------------------------------------
(***************************************************************************)
(* load.  A missing file is replaced by the default document, which is     *)
(* persisted before the server starts; a file that is not JSON keeps the   *)
(* server from starting.                                                   *)
(***************************************************************************)
LoadMissing ==
    /\ server = "down"
    /\ file.kind = "none"
    /\ server' = "loading"
    /\ mem' = {}
    /\ lock' = Boot
    /\ phase' = [phase EXCEPT ![Boot] = "write"]
    /\ UNCHANGED <<previous, result, view, fileVars, faultVars>>

LoadFile ==
    /\ server = "down"
    /\ file.kind = "whole"
    /\ server' = "up"
    /\ mem' = file.doc
    /\ UNCHANGED <<lock, previous, phase, result, view, fileVars, faultVars>>

-----------------------------------------------------------------------------
(***************************************************************************)
(* The part of Mutate and Update before persist: take the lock, run fn.    *)
(***************************************************************************)
TakesLock(r) ==
    /\ server = "up"
    /\ lock = None
    /\ phase[r] = "idle"

\* r gives up with an error and releases the lock, leaving document d.
Refused(r, d) ==
    /\ mem' = d
    /\ lock' = None
    /\ phase' = [phase EXCEPT ![r] = "done"]
    /\ result' = [result EXCEPT ![r] = "error"]

StartsPersist(r) ==
    /\ mem' = mem \cup EditsOf(r)
    /\ lock' = r
    /\ phase' = [phase EXCEPT ![r] = "write"]
    /\ UNCHANGED result

\* fn or Validate may reject the working copy, which is then dropped.
Mutate(r) ==
    /\ TakesLock(r)
    /\ \/ Refused(r, mem) /\ UNCHANGED previous
       \/ StartsPersist(r) /\ previous' = mem
    /\ UNCHANGED <<server, view, fileVars, faultVars>>

\* fn works on the live document: it may fail before its first edit, or after
\* it (handleProjectUpdate sets the name, then finds the assignment taken).
Update(r) ==
    /\ TakesLock(r)
    /\ \/ Refused(r, mem)
       \/ Refused(r, mem \cup FirstEdit(r))
       \/ StartsPersist(r)
    /\ UNCHANGED <<server, previous, view, fileVars, faultVars>>

-----------------------------------------------------------------------------
(***************************************************************************)
(* persist, step by step, by the writer r that holds the lock.             *)
(***************************************************************************)
WriteTmp(r) ==
    /\ lock = r /\ phase[r] = "write"
    /\ Encodable(mem)
    /\ tmp' = [kind |-> "whole", doc |-> mem, synced |-> FALSE]
    /\ phase' = [phase EXCEPT ![r] = "sync"]
    /\ UNCHANGED <<server, mem, lock, previous, result, view, file, stable, faultVars>>

\* Bug: the data is never flushed.
SyncTmpSkipped(r) ==
    /\ lock = r /\ phase[r] = "sync"
    /\ phase' = [phase EXCEPT ![r] = "rename"]
    /\ UNCHANGED <<server, mem, lock, previous, result, view, fileVars, faultVars>>

SyncTmp(r) ==
    /\ lock = r /\ phase[r] = "sync"
    /\ tmp' = [tmp EXCEPT !.synced = TRUE]
    /\ phase' = [phase EXCEPT ![r] = "rename"]
    /\ UNCHANGED <<server, mem, lock, previous, result, view, file, stable, faultVars>>

Rename(r) ==
    /\ lock = r /\ phase[r] = "rename"
    /\ file' = tmp
    /\ tmp' = NoFile
    /\ phase' = [phase EXCEPT ![r] = "return"]
    /\ UNCHANGED <<server, mem, lock, previous, result, view, stable, faultVars>>

\* Bug: persist's error ends Mutate before the previous document is restored.
AfterFailureKept(r) == IF r = Boot THEN {} ELSE mem

\* What is in memory after persist failed: Mutate restores the previous
\* document, Update keeps the new one, and a failed first start ends the process.
AfterFailure(r) ==
    IF r \in Mutators THEN previous ELSE IF r = Boot THEN {} ELSE mem

\* Bug: the error path returns without unlocking.
LockKept(r) == r
ReleasedLock(r) == None

\* Bug: Update and Mutate return a failed persist as a success.
FailureAnswerOk(r) == "ok"
FailureAnswer(r) == "error"

\* Encoding, opening, writing, syncing, closing or renaming fails.  The
\* temporary file is removed, unless it was not even opened or its removal
\* fails too, after a part of it was written.
PersistFails(r) ==
    /\ lock = r /\ InPersist(r)
    /\ mem' = AfterFailure(r)
    /\ tmp' \in {tmp, NoFile, Torn}
    /\ lock' = ReleasedLock(r)
    /\ phase' = [phase EXCEPT ![r] = IF r = Boot THEN "idle" ELSE "done"]
    /\ result' = [result EXCEPT ![r] = IF r = Boot THEN "none" ELSE FailureAnswer(r)]
    /\ server' = IF r = Boot THEN "down" ELSE server
    /\ UNCHANGED <<previous, view, file, stable, faultVars>>

Return(r) ==
    /\ lock = r /\ phase[r] = "return"
    /\ lock' = None
    /\ phase' = [phase EXCEPT ![r] = "done"]
    /\ result' = [result EXCEPT ![r] = "ok"]
    /\ server' = "up"
    /\ UNCHANGED <<mem, previous, view, fileVars, faultVars>>

-----------------------------------------------------------------------------
\* Bug: the document is copied without the read lock.
ReadUnlocked(c) ==
    /\ server = "up"
    /\ view' = [view EXCEPT ![c] = mem]
    /\ UNCHANGED <<server, memVars, fileVars, faultVars>>

\* Snapshot and Marshal: a copy of the document under the read lock.
Snapshot(c) ==
    /\ server = "up"
    /\ lock = None
    /\ view' = [view EXCEPT ![c] = mem]
    /\ UNCHANGED <<server, memVars, fileVars, faultVars>>

-----------------------------------------------------------------------------
(***************************************************************************)
(* Failures.  A killed process loses its memory and answers nobody.  A     *)
(* power loss also loses what the system had not flushed: unsynced data,   *)
(* and a rename whose directory was not written back yet.                  *)
(***************************************************************************)
Stops ==
    /\ server' = "down"
    /\ mem' = {}
    /\ lock' = None
    /\ previous' = {}
    /\ phase' = [r \in Writers |->
                    IF InPersist(r) \/ phase[r] = "return"
                    THEN IF r = Boot THEN "idle" ELSE "lost"
                    ELSE phase[r]]
    /\ UNCHANGED <<result, view>>

ProcessCrash ==
    /\ server # "down"
    /\ crashes < MaxCrashes
    /\ crashes' = crashes + 1
    /\ Stops
    /\ UNCHANGED <<fileVars, losses>>

Survivors(inode) == IF inode.synced THEN {inode} ELSE {inode, Torn}

PowerLoss ==
    /\ losses < MaxPowerLosses
    /\ losses' = losses + 1
    /\ Stops
    /\ file' \in Survivors(file) \cup Survivors(stable)
    /\ stable' = file'
    /\ tmp' \in Survivors(tmp) \cup {NoFile}
    /\ UNCHANGED crashes

\* The operating system writes the directory back in its own time.
FlushDirectory ==
    /\ stable # file
    /\ stable' = file
    /\ UNCHANGED <<server, memVars, view, tmp, file, faultVars>>

-----------------------------------------------------------------------------
Persist(r) == WriteTmp(r) \/ SyncTmp(r) \/ Rename(r) \/ PersistFails(r) \/ Return(r)

Next ==
    \/ LoadMissing
    \/ LoadFile
    \/ \E r \in Mutators : Mutate(r)
    \/ \E r \in Updaters : Update(r)
    \/ \E r \in Writers : WriteTmp(r)
    \/ \E r \in Writers : SyncTmp(r)
    \/ \E r \in Writers : Rename(r)
    \/ \E r \in Writers : PersistFails(r)
    \/ \E r \in Writers : Return(r)
    \/ \E c \in Readers : Snapshot(c)
    \/ ProcessCrash
    \/ PowerLoss
    \/ FlushDirectory

Spec == Init /\ [][Next]_vars

\* The runtime keeps running the writer that holds the lock, and a waiting
\* writer gets a free lock: a Go RWMutex does not starve writers.
Fairness ==
    /\ \A r \in Writers : WF_vars(Persist(r))
    /\ \A r \in Mutators : WF_vars(Mutate(r))
    /\ \A r \in Updaters : WF_vars(Update(r))

LiveSpec == Spec /\ Fairness

-----------------------------------------------------------------------------
\* The data file is never a truncated or empty one, not even after a power
\* loss right after the rename (the comment of persist).
FileNeverTorn == file.kind # "torn" /\ stable.kind # "torn"

\* A write that went through Mutate and was answered with an error left
\* nothing behind: neither in memory, nor in the file, nor in what a later
\* power loss can bring back.
RefusedMutateLeavesNothing ==
    \A r \in Mutators :
        result[r] = "error" =>
            EditsOf(r) \cap (mem \cup file.doc \cup stable.doc) = {}

\* A write answered with "ok" is in the file the next start will load, as
\* long as the machine keeps its power.
AcceptedIsInFile ==
    losses = 0 => \A r \in Requests : result[r] = "ok" => EditsOf(r) \subseteq file.doc

\* While nobody writes, memory runs ahead of the file only by edits of
\* requests that went through Update and failed.
DivergenceIsFailedUpdate ==
    server = "up" /\ lock = None =>
        /\ file.doc \subseteq mem
        /\ \A e \in mem \ file.doc : e[1] \in Updaters /\ result[e[1]] = "error"

\* No reader was ever given an edit of a Mutate that was then rolled back.
NoDirtyRead ==
    \A c \in Readers, r \in Mutators :
        result[r] = "error" => EditsOf(r) \cap view[c] = {}

\* The claim of docs/PLAN.md: "a failed write never leaves a half-changed
\* document", as seen by anyone who can read the document.
NoHalfChangedDocument ==
    server = "up" /\ lock = None =>
        \A r \in Requests :
            result[r] = "error" => EditsOf(r) \cap mem \in {{}, EditsOf(r)}

\* Every write that reaches a running server is answered, or the server stops:
\* the lock is released on every path, failures included.
EveryWriteAnswered ==
    \A r \in Requests :
        (server = "up" /\ phase[r] = "idle") ~> (phase[r] \in {"done", "lost"} \/ server # "up")

\* What a reader would be given if the lock were free: a Mutate that has not
\* replaced the file yet can still be undone.
Live ==
    IF server = "down" THEN file.doc
    ELSE IF lock \in Mutators /\ InPersist(lock) THEN previous ELSE mem

\* The store is a durable document, through failed writes, crashes and power
\* losses: a write is in the file as a whole before it is answered with "ok",
\* a refused one never, and a restart or a power loss brings back a document that
\* was saved as a whole (docs/PLAN.md on durability; the comments of persist and
\* Mutate).  Only the writes of Update are careless.
Durable == INSTANCE DurableDocument WITH
    Careless <- Updaters,
    live <- Live,
    saved <- file.doc,
    older <- stable.doc,
    answer <- [r \in Requests |-> result[r]],
    seen <- view

ImplementsDurableDocument == Durable!DocSpec

=============================================================================
