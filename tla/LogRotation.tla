----------------------------- MODULE LogRotation -----------------------------
(***************************************************************************)
(* logging.rotatingWriter: one log file with a size limit and a chain of   *)
(* backups.  The writer's mutex makes a Write atomic for other writers,    *)
(* but not for a crash, and each step of a rotation may fail on its own.   *)
(* A line is a record of its number and its length.                        *)
(***************************************************************************)

EXTENDS Integers, Sequences, Functions

CONSTANTS
    MaxBytes,     \* size at which the log rotates
    MaxBackups,   \* how many rotated files are kept
    Lengths,      \* lengths of lines
    Missing,      \* a file that does not exist
    MaxLines,     \* bound: lines written
    MaxFailures,  \* bound: operations of the file system that fail
    MaxRestarts   \* bound: crashes or restarts

ASSUME RotationAssumption ==
    /\ MaxBytes \in Nat \ {0}
    /\ MaxBackups \in Nat \ {0}
    /\ Lengths \subseteq Nat \ {0}
    /\ MaxLines \in Nat
    /\ MaxFailures \in Nat
    /\ MaxRestarts \in Nat

VARIABLES
    at,        \* where the Write in progress is, or "rest", or "down"
    shift,     \* the backup that is renamed next
    pending,   \* the line being written
    log,       \* the file at path
    backup,    \* backup[i]: the file at path.i
    open,      \* whether the writer's file is open
    released,  \* whether Close was called, after which there is no file
    size,      \* rotatingWriter.size
    lines,     \* how many lines were handed to Write
    lost,      \* lines interrupted by a crash, cut short by an error, or after Close
    dropped,   \* lines that met a closed file
    failures,
    restarts

vars == <<at, shift, pending, log, backup, open, released, size, lines, lost,
          dropped, failures, restarts>>

Backups == 1 .. MaxBackups

Line == [n : 1 .. MaxLines, len : Nat \ {0}]
IsFile(f) == f = Missing \/ f \in Seq(Line)

\* A file that does not exist is neither a file nor a line.
ASSUME MissingAssumption == Missing \notin Seq(Line) /\ Missing \notin Line

Length(f) ==
    IF f = Missing THEN 0
    ELSE SumFunctionOnSet([k \in DOMAIN f |-> f[k].len], DOMAIN f)

\* The domains of the variables.
TypeOK ==
    /\ at \in {"down", "rest", "close", "remove", "shift", "move", "open", "write"}
    /\ shift \in 0 .. MaxBackups - 1
    /\ pending = Missing \/ pending \in Line
    /\ IsFile(log)
    /\ backup = [i \in Backups |-> backup[i]] /\ \A i \in Backups : IsFile(backup[i])
    /\ open \in BOOLEAN /\ released \in BOOLEAN
    /\ size \in Nat
    /\ lines \in 0 .. MaxLines
    /\ lost \subseteq 1 .. lines /\ dropped \subseteq 1 .. lines
    /\ failures \in 0 .. MaxFailures /\ restarts \in 0 .. MaxRestarts

Init ==
    /\ at = "down"
    /\ shift = 0
    /\ pending = Missing
    /\ log = Missing
    /\ backup = [i \in Backups |-> Missing]
    /\ open = FALSE /\ released = FALSE
    /\ size = 0
    /\ lines = 0
    /\ lost = {} /\ dropped = {}
    /\ failures = 0 /\ restarts = 0

Fails == failures < MaxFailures /\ failures' = failures + 1

-----------------------------------------------------------------------------
\* Bug: an opened file is taken to be empty.
SizeOfNewFile(f) == 0
SizeOnOpen(f) == Length(f)

\* Bug: the file is opened to be written from its start.
TruncatedOnOpen(f) == <<>>
ContentOnOpen(f) == IF f = Missing THEN <<>> ELSE f

OpensLog ==
    /\ log' = ContentOnOpen(log)
    /\ open' = TRUE
    /\ size' = SizeOnOpen(log)

\* newRotatingWriter.  When it cannot open the file, the process logs to the
\* standard output only, and there is nothing left to model.
Setup ==
    /\ at = "down"
    /\ OpensLog
    /\ released' = FALSE
    /\ at' = "rest"
    /\ UNCHANGED <<shift, pending, backup, lines, lost, dropped, failures, restarts>>

\* Bug: the limit is looked at without the line.
FullWithoutLine(len) == size > MaxBytes
Full(len) == size + len > MaxBytes

Write(len) ==
    /\ at = "rest"
    /\ lines < MaxLines
    /\ lines' = lines + 1
    /\ pending' = [n |-> lines + 1, len |-> len]
    /\ at' = IF ~released /\ Full(len) THEN "close" ELSE "write"
    /\ UNCHANGED <<shift, log, backup, open, released, size, lost, dropped, failures, restarts>>

\* The first step of rotate.  Closing may fail; closing a closed file does.
CloseLog ==
    /\ at = "close"
    /\ open' = FALSE
    /\ \/ open /\ at' = "remove" /\ UNCHANGED failures
       \/ open /\ at' = "write" /\ Fails
       \/ ~open /\ at' = "write" /\ UNCHANGED failures
    /\ UNCHANGED <<shift, pending, log, backup, released, size, lines, lost, dropped, restarts>>

FirstShift == MaxBackups - 1

RemoveOldest ==
    /\ at = "remove"
    /\ \/ backup' = [backup EXCEPT ![MaxBackups] = Missing] /\ UNCHANGED failures
       \/ backup[MaxBackups] # Missing /\ Fails /\ UNCHANGED backup
    /\ shift' = FirstShift
    /\ at' = IF FirstShift = 0 THEN "move" ELSE "shift"
    /\ UNCHANGED <<pending, log, open, released, size, lines, lost, dropped, restarts>>

\* Bug: backups are copied instead of renamed.
Copied == [backup EXCEPT ![shift + 1] = backup[shift]]
Renamed == [backup EXCEPT ![shift + 1] = backup[shift], ![shift] = Missing]

\* path.i becomes path.(i+1); there is no error when there is no path.i, and
\* the errors there are go unnoticed.
ShiftBackup ==
    /\ at = "shift"
    /\ \/ backup[shift] = Missing /\ UNCHANGED <<backup, failures>>
       \/ backup[shift] # Missing /\ backup' = Renamed /\ UNCHANGED failures
       \/ backup[shift] # Missing /\ Fails /\ UNCHANGED backup
    /\ shift' = shift - 1
    /\ at' = IF shift = 1 THEN "move" ELSE "shift"
    /\ UNCHANGED <<pending, log, open, released, size, lines, lost, dropped, restarts>>

MoveLog ==
    /\ at = "move"
    /\ \/ /\ backup' = [backup EXCEPT ![1] = log]
          /\ log' = Missing
          /\ UNCHANGED failures
       \/ /\ Fails
          /\ UNCHANGED <<backup, log>>
    /\ at' = "open"
    /\ UNCHANGED <<shift, pending, open, released, size, lines, lost, dropped, restarts>>

\* A file that was opened but whose size is unknown is closed again.
ReopenLog ==
    /\ at = "open"
    /\ \/ OpensLog /\ UNCHANGED failures
       \/ Fails /\ log' \in {log, ContentOnOpen(log)} /\ UNCHANGED <<open, size>>
    /\ at' = "write"
    /\ UNCHANGED <<shift, pending, backup, released, lines, lost, dropped, restarts>>

Appended(k) == IF k = 0 THEN log ELSE Append(log, [n |-> pending.n, len |-> k])

\* The last step of Write, also after a failed rotation.  Of a line that the
\* file system refuses, k bytes may have been written.
AppendLine ==
    /\ at = "write"
    /\ \/ /\ open
          /\ log' = Appended(pending.len)
          /\ size' = size + pending.len
          /\ UNCHANGED <<lost, dropped, failures>>
       \/ /\ open
          /\ Fails
          /\ \E k \in 0 .. pending.len - 1 :
                 log' = Appended(k) /\ size' = size + k
          /\ lost' = lost \cup {pending.n}
          /\ UNCHANGED dropped
       \/ /\ ~open /\ ~released
          /\ dropped' = dropped \cup {pending.n}
          /\ UNCHANGED <<log, size, lost, failures>>
       \/ /\ released
          /\ lost' = lost \cup {pending.n}
          /\ UNCHANGED <<log, size, dropped, failures>>
    /\ pending' = Missing
    /\ at' = "rest"
    /\ UNCHANGED <<shift, backup, open, released, lines, restarts>>

\* main has returned, but a handler that outlived the shutdown may still log.
Close ==
    /\ at = "rest"
    /\ ~released
    /\ open' = FALSE
    /\ released' = TRUE
    /\ UNCHANGED <<at, shift, pending, log, backup, size, lines, lost, dropped, failures, restarts>>

\* The process ends, in the middle of a Write or not.
Stop ==
    /\ at # "down"
    /\ restarts < MaxRestarts
    /\ restarts' = restarts + 1
    /\ lost' = IF pending = Missing THEN lost ELSE lost \cup {pending.n}
    /\ at' = "down"
    /\ shift' = 0
    /\ pending' = Missing
    /\ open' = FALSE /\ released' = FALSE
    /\ size' = 0
    /\ UNCHANGED <<log, backup, lines, dropped, failures>>

Next ==
    \/ Setup
    \/ \E len \in Lengths : Write(len)
    \/ CloseLog
    \/ RemoveOldest
    \/ ShiftBackup
    \/ MoveLog
    \/ ReopenLog
    \/ AppendLine
    \/ Close
    \/ Stop

Spec == Init /\ [][Next]_vars

-----------------------------------------------------------------------------
\* The files by age, the log first, and the numbers of the lines that are kept.
Ages == 0 .. MaxBackups
File(i) == IF i = 0 THEN log ELSE backup[i]
NumbersOf(f) == IF f = Missing THEN {} ELSE {f[k].n : k \in DOMAIN f}
KeptNumbers == UNION {NumbersOf(File(i)) : i \in Ages}

\* Read from the oldest backup to the log, lines are in the order in which
\* they were written, and none is there twice, whatever failed or crashed.
LogInOrder ==
    /\ \A i \in Ages : File(i) # Missing =>
           \A k, l \in DOMAIN File(i) : k < l => File(i)[k].n < File(i)[l].n
    /\ \A i, j \in Ages : i > j =>
           \A m \in NumbersOf(File(i)), n \in NumbersOf(File(j)) : m < n

\* Without a failing file system only the oldest lines go: from the oldest
\* line kept to the newest one written nothing is missing, also when a crash
\* interrupted a rotation (it takes the line being written along).
OnlyOldestLinesGo ==
    failures = 0 => \A n \in KeptNumbers :
        \A m \in n .. lines : m \in KeptNumbers \cup lost \/ (pending # Missing /\ m = pending.n)

\* The size the writer counts is the size of the file, so that the limit is
\* kept also after a restart on a file that was there before.
SizeIsCounted == open /\ at \in {"rest", "write"} => size = Length(log)

\* Without a failing file system no file outgrows the limit, except for a line
\* that is longer than the limit itself.
WithinLimit ==
    failures = 0 => \A i \in Ages :
        Length(File(i)) <= MaxBytes \/ Len(File(i)) = 1

\* The comment in Write: after a failed rotation "keep logging to the existing
\* file rather than dropping the line".
NoLineDropped == dropped = {}

=============================================================================
