-------------------------- MODULE LogRotationProofs --------------------------
(***************************************************************************)
(* Proofs about the log, for any limit, number of backups, lengths of      *)
(* lines, and number of failures and restarts.                             *)
(***************************************************************************)

EXTENDS LogRotation, DataLemmas, TLAPS

\* A line is pending just while a Write is under way, and it is the newest one.
PendingInv ==
    /\ at \in {"down", "rest"} => pending = Missing
    /\ at \notin {"down", "rest"} => pending \in Line /\ pending.n = lines

ShiftInv == at = "shift" => shift >= 1

\* The files only hold lines that were written before the pending one.
NumberInv ==
    \A m \in KeptNumbers : m \in 1 .. lines /\ (pending # Missing => m < lines)

\* An open file is there, and its size is known.
OpenInv ==
    /\ open => /\ at \in {"rest", "close", "write"}
               /\ ~released
               /\ log # Missing
               /\ size = Length(log)
    /\ released => at \in {"rest", "write"}

\* As long as nothing has failed, a rotation leaves a gap below the files it
\* has moved, and comes back to an empty file.
FlawlessInv ==
    failures = 0 =>
        /\ at \in {"rest", "close", "write"} /\ ~released => open
        /\ at = "shift" => backup[shift + 1] = Missing
        /\ at = "move" => backup[1] = Missing
        /\ at = "open" => log = Missing
        /\ at = "write" /\ open => size + pending.len <= MaxBytes \/ log = <<>>

-----------------------------------------------------------------------------
(***************************************************************************)
(* Sizes of files.                                                         *)
(***************************************************************************)

\* A file that is missing or empty has no bytes.
LEMMA LengthOfNothing == Length(Missing) = 0 /\ Length(<<>>) = 0
<1>1. DOMAIN <<>> = {}
  OBVIOUS
<1>2. PICK g : g = [k \in DOMAIN <<>> |-> <<>>[k].len]
  OBVIOUS
<1>3. IsFiniteSet({}) /\ \A x \in {} : g[x] = 0
  BY FS_EmptySet
<1>4. SumFunctionOnSet(g, {}) = 0
  BY <1>3, SumOfZeros
<1> QED
  BY <1>1, <1>2, <1>4 DEF Length

\* The size of a file is a number.
LEMMA LengthType == ASSUME NEW f, IsFile(f) PROVE Length(f) \in Nat
<1>1. CASE f = Missing
  BY <1>1, LengthOfNothing
<1>2. CASE f # Missing
  <2>1. f \in Seq(Line) /\ DOMAIN f = 1 .. Len(f) /\ Len(f) \in Nat
    BY <1>2 DEF IsFile
  <2>2. PICK g : g = [k \in DOMAIN f |-> f[k].len]
    OBVIOUS
  <2>3. \A k \in DOMAIN f : g[k] \in Nat
    <3>1. \A k \in DOMAIN f : f[k] \in Line
      BY <2>1
    <3> QED
      BY <2>2, <3>1 DEF Line
  <2>4. IsFiniteSet(DOMAIN f)
    BY <2>1, FS_Interval
  <2>5. SumFunctionOnSet(g, DOMAIN f) \in Nat
    BY <2>3, <2>4, SumIsNat
  <2> QED
    BY <1>2, <2>2, <2>5 DEF Length
<1> QED
  BY <1>1, <1>2

\* An appended line adds its bytes.
LEMMA LengthOfAppend ==
    ASSUME NEW f \in Seq(Line), NEW l \in Line
    PROVE  /\ Append(f, l) \in Seq(Line)
           /\ Length(Append(f, l)) = Length(f) + l.len
<1>1. PICK h : h = Append(f, l)
  OBVIOUS
<1>2. /\ h \in Seq(Line) /\ Len(f) \in Nat
      /\ DOMAIN f = 1 .. Len(f) /\ DOMAIN h = 1 .. Len(f) + 1
      /\ \A k \in DOMAIN f : h[k] = f[k]
      /\ h[Len(f) + 1] = l
  BY <1>1
<1>3. PICK F, G : /\ F = [k \in DOMAIN h |-> h[k].len]
                  /\ G = [k \in DOMAIN f |-> f[k].len]
  OBVIOUS
<1>4. /\ \A k \in DOMAIN h : F[k] \in Int
      /\ \A k \in DOMAIN f : F[k] \in Int /\ F[k] = G[k]
      /\ Len(f) + 1 \in DOMAIN h
      /\ F[Len(f) + 1] = l.len
  <2>1. \A k \in DOMAIN h : h[k] \in Line
    BY <1>2
  <2>2. \A k \in DOMAIN h : F[k] \in Int
    BY <1>3, <2>1 DEF Line
  <2>3. \A k \in DOMAIN f : k \in DOMAIN h
    BY <1>2
  <2>4. \A k \in DOMAIN f : F[k] = G[k]
    BY <1>2, <1>3, <2>3
  <2>5. Len(f) + 1 \in DOMAIN h
    BY <1>2
  <2> QED
    BY <1>2, <1>3, <2>2, <2>3, <2>4, <2>5
<1>5. DOMAIN h \ {Len(f) + 1} = DOMAIN f
  BY <1>2
<1>6. IsFiniteSet(DOMAIN h) /\ IsFiniteSet(DOMAIN f)
  BY <1>2, FS_Interval
<1>7. SumFunctionOnSet(F, DOMAIN h) = F[Len(f) + 1] + SumFunctionOnSet(F, DOMAIN h \ {Len(f) + 1})
  BY <1>4, <1>6, SumTakes
<1>8. SumFunctionOnSet(F, DOMAIN f) = SumFunctionOnSet(G, DOMAIN f)
  BY <1>4, <1>6, SumCongruence
<1>9. Length(h) = SumFunctionOnSet(F, DOMAIN h) /\ Length(f) = SumFunctionOnSet(G, DOMAIN f)
  BY <1>2, <1>3, MissingAssumption DEF Length
<1>10. Length(f) \in Nat
  BY LengthType DEF IsFile
<1>11. l.len \in Nat
  BY DEF Line
<1>12. Length(h) = l.len + Length(f)
  BY <1>4, <1>5, <1>7, <1>8, <1>9
<1> QED
  BY <1>1, <1>2, <1>10, <1>11, <1>12

-----------------------------------------------------------------------------
(***************************************************************************)
(* Types, the pending line and the open file.                              *)
(***************************************************************************)

FilesTyped ==
    /\ IsFile(log)
    /\ backup = [i \in Backups |-> backup[i]]
    /\ \A i \in Backups : IsFile(backup[i])

CountersTyped ==
    /\ at \in {"down", "rest", "close", "remove", "shift", "move", "open", "write"}
    /\ shift \in 0 .. MaxBackups - 1
    /\ pending = Missing \/ pending \in Line
    /\ open \in BOOLEAN /\ released \in BOOLEAN
    /\ size \in Nat
    /\ lines \in 0 .. MaxLines
    /\ lost \subseteq 1 .. lines /\ dropped \subseteq 1 .. lines
    /\ failures \in 0 .. MaxFailures /\ restarts \in 0 .. MaxRestarts

\* The types of the files and the bounds of the counters.
LEMMA TypeParts == TypeOK <=> FilesTyped /\ CountersTyped
  BY DEF TypeOK, FilesTyped, CountersTyped

Inv == TypeOK /\ PendingInv /\ ShiftInv /\ OpenInv

\* What was written of the pending line: nothing, or a line of its number.
LEMMA AppendedLine ==
    ASSUME log \in Seq(Line), pending \in Line, NEW k \in 0 .. pending.len,
           NEW f, f = Appended(k)
    PROVE  /\ f \in Seq(Line) /\ f # Missing
           /\ Length(f) = Length(log) + k
           /\ k = 0 => f = log
           /\ k # 0 => /\ Len(f) = Len(log) + 1
                       /\ \A j \in 1 .. Len(log) : f[j] = log[j]
                       /\ f[Len(log) + 1].n = pending.n
<1>1. Length(log) \in Nat /\ k \in Nat
  <2>1. pending.len \in Nat
    BY DEF Line
  <2>2. Length(log) \in Nat
    BY LengthType DEF IsFile
  <2> QED
    BY <2>1, <2>2
<1>2. CASE k = 0
  BY <1>1, <1>2, MissingAssumption DEF Appended
<1>3. CASE k # 0
  <2>1. PICK l : l = [n |-> pending.n, len |-> k]
    OBVIOUS
  <2>2. l \in Line /\ l.len = k /\ l.n = pending.n
    BY <1>1, <1>3, <2>1 DEF Line
  <2>3. f = Append(log, l)
    BY <1>3, <2>1 DEF Appended
  <2>4. f \in Seq(Line) /\ Length(f) = Length(log) + l.len
    BY <2>2, <2>3, LengthOfAppend
  <2>5. /\ Len(f) = Len(log) + 1
        /\ \A j \in 1 .. Len(log) : f[j] = log[j]
        /\ f[Len(log) + 1] = l
    BY <2>3
  <2> QED
    BY <1>3, <2>2, <2>4, <2>5, MissingAssumption
<1> QED
  BY <1>2, <1>3

\* Opening the log, new or not.
LEMMA OpenedLog ==
    ASSUME IsFile(log)
    PROVE  /\ ContentOnOpen(log) \in Seq(Line) /\ ContentOnOpen(log) # Missing
           /\ SizeOnOpen(log) = Length(ContentOnOpen(log))
           /\ SizeOnOpen(log) \in Nat
<1>1. <<>> \in Seq(Line)
  OBVIOUS
<1>2. SizeOnOpen(log) \in Nat
  BY LengthType DEF SizeOnOpen
<1> QED
  BY <1>1, <1>2, LengthOfNothing, MissingAssumption DEF ContentOnOpen, SizeOnOpen, IsFile

\* What a rename leaves.
LEMMA RenamedBackups ==
    ASSUME FilesTyped, shift \in Backups, shift + 1 \in Backups
    PROVE  Renamed = [i \in Backups |-> IF i = shift + 1 THEN backup[shift]
                                        ELSE IF i = shift THEN Missing ELSE backup[i]]
<1>1. PICK s : s = shift
  OBVIOUS
<1>2. shift # shift + 1
  BY DEF Backups
<1>3. PICK b : b = backup
  OBVIOUS
<1>4. b = [i \in Backups |-> b[i]]
  BY <1>3 DEF FilesTyped
<1>5. [b EXCEPT ![shift + 1] = b[shift], ![shift] = Missing] =
          [i \in Backups |-> IF i = shift + 1 THEN b[shift]
                             ELSE IF i = shift THEN Missing ELSE b[i]]
  BY <1>2, <1>4
<1> QED
  BY <1>3, <1>5 DEF Renamed

\* Before the first start there is no file and no handle.
LEMMA FirstState == Init => Inv
<1> SUFFICES ASSUME Init PROVE Inv
  OBVIOUS
<1>1. /\ MaxBackups - 1 \in Nat /\ 0 \in 0 .. MaxBackups - 1
      /\ 0 \in 0 .. MaxLines /\ 0 \in 0 .. MaxFailures /\ 0 \in 0 .. MaxRestarts
  BY RotationAssumption
<1>2. TypeOK
  BY <1>1 DEF Init, TypeOK, IsFile
<1>3. PendingInv /\ ShiftInv /\ OpenInv
  BY DEF Init, PendingInv, ShiftInv, OpenInv
<1> QED
  BY <1>2, <1>3 DEF Inv

\* Every step of Setup, Write, rotate and Close keeps handle, counted size
\* and pending line together, and so does a crash.
LEMMA NextState == Inv /\ [Next]_vars => Inv'
<1> SUFFICES ASSUME Inv, [Next]_vars PROVE Inv'
  OBVIOUS
<1> USE RotationAssumption
<1>1. FilesTyped /\ CountersTyped /\ PendingInv /\ ShiftInv /\ OpenInv
  BY TypeParts DEF Inv
<1>2. CASE Setup
  <2>1. IsFile(log)
    BY <1>1 DEF CountersTyped, FilesTyped
  <2>2. TypeOK'
    <3>1. FilesTyped'
      BY <1>1, <1>2, <2>1, OpenedLog DEF Setup, OpensLog, IsFile, FilesTyped
    <3>2. CountersTyped'
      BY <1>1, <1>2, <2>1, OpenedLog DEF Setup, OpensLog, CountersTyped
    <3> QED
      BY <3>1, <3>2 DEF TypeOK, FilesTyped, CountersTyped
  <2>3. PendingInv' /\ ShiftInv'
    BY <1>1, <1>2 DEF Setup, PendingInv, ShiftInv
  <2>4. OpenInv'
    BY <1>1, <1>2, <2>1, OpenedLog DEF Setup, OpensLog, OpenInv
  <2> QED
    BY <2>2, <2>3, <2>4 DEF Inv
<1>3. ASSUME NEW len \in Lengths, Write(len) PROVE Inv'
  <2>1. TypeOK'
    <3>1. FilesTyped'
      BY <1>1, <1>3 DEF Write, IsFile, FilesTyped
    <3>2. CountersTyped'
      BY <1>1, <1>3 DEF Write, Line, CountersTyped
    <3> QED
      BY <3>1, <3>2 DEF TypeOK, FilesTyped, CountersTyped
  <2>2. PendingInv' /\ ShiftInv' /\ OpenInv'
    BY <1>1, <1>3 DEF Write, PendingInv, ShiftInv, OpenInv, CountersTyped, FilesTyped, Line
  <2> QED
    BY <2>1, <2>2 DEF Inv
<1>4. CASE CloseLog
  <2>1. TypeOK'
    <3>1. FilesTyped'
      BY <1>1, <1>4 DEF CloseLog, Fails, IsFile, FilesTyped
    <3>2. CountersTyped'
      <4>1. failures' \in 0 .. MaxFailures
        BY <1>1, <1>4 DEF CloseLog, Fails, CountersTyped
      <4>2. open' \in BOOLEAN /\ released' \in BOOLEAN
        BY <1>1, <1>4 DEF CloseLog, CountersTyped
      <4> QED
        BY <1>1, <1>4, <4>1, <4>2 DEF CloseLog, CountersTyped
    <3> QED
      BY <3>1, <3>2 DEF TypeOK, FilesTyped, CountersTyped
  <2>2. PendingInv' /\ ShiftInv' /\ OpenInv'
    BY <1>1, <1>4 DEF CloseLog, PendingInv, ShiftInv, OpenInv
  <2> QED
    BY <2>1, <2>2 DEF Inv
<1>5. CASE RemoveOldest
  <2>1. TypeOK'
    <3>1. FilesTyped'
      BY <1>1, <1>5 DEF RemoveOldest, FirstShift, Fails, IsFile, Backups, FilesTyped
    <3>2. CountersTyped'
      BY <1>1, <1>5 DEF RemoveOldest, FirstShift, Fails, Backups, CountersTyped
    <3> QED
      BY <3>1, <3>2 DEF TypeOK, FilesTyped, CountersTyped
  <2>2. PendingInv' /\ ShiftInv' /\ OpenInv'
    BY <1>1, <1>5 DEF RemoveOldest, FirstShift, PendingInv, ShiftInv, OpenInv
  <2> QED
    BY <2>1, <2>2 DEF Inv
<1>6. CASE ShiftBackup
  <2>1. TypeOK'
    <3>1. FilesTyped'
      <4>1. backup' = backup \/ backup' = Renamed
        BY <1>6 DEF ShiftBackup
      <4>2. Renamed = [i \in Backups |-> Renamed[i]] /\ \A i \in Backups : IsFile(Renamed[i])
        <5>1. shift \in Backups /\ shift + 1 \in Backups
          BY <1>1, <1>6 DEF ShiftBackup, ShiftInv, CountersTyped, Backups
        <5>2. Renamed = [i \in Backups |-> IF i = shift + 1 THEN backup[shift]
                                           ELSE IF i = shift THEN Missing ELSE backup[i]]
          BY <1>1, <5>1, RenamedBackups
        <5>3. \A i \in Backups : IsFile(Renamed[i])
          BY <1>1, <5>1, <5>2 DEF FilesTyped, IsFile
        <5> QED
          BY <5>2, <5>3
      <4>3. log' = log
        BY <1>6 DEF ShiftBackup
      <4> QED
        BY <1>1, <4>1, <4>2, <4>3 DEF FilesTyped, IsFile
    <3>2. CountersTyped'
      BY <1>1, <1>6 DEF ShiftBackup, Renamed, Fails, Backups, ShiftInv, CountersTyped
    <3> QED
      BY <3>1, <3>2 DEF TypeOK, FilesTyped, CountersTyped
  <2>2. PendingInv' /\ ShiftInv' /\ OpenInv'
    BY <1>1, <1>6 DEF ShiftBackup, PendingInv, ShiftInv, OpenInv, CountersTyped, FilesTyped
  <2> QED
    BY <2>1, <2>2 DEF Inv
<1>7. CASE MoveLog
  <2>1. TypeOK'
    <3>1. FilesTyped'
      BY <1>1, <1>7 DEF MoveLog, Fails, IsFile, Backups, FilesTyped
    <3>2. CountersTyped'
      BY <1>1, <1>7 DEF MoveLog, Fails, Backups, CountersTyped
    <3> QED
      BY <3>1, <3>2 DEF TypeOK, FilesTyped, CountersTyped
  <2>2. PendingInv' /\ ShiftInv' /\ OpenInv'
    BY <1>1, <1>7 DEF MoveLog, PendingInv, ShiftInv, OpenInv
  <2> QED
    BY <2>1, <2>2 DEF Inv
<1>8. CASE ReopenLog
  <2>1. IsFile(log)
    BY <1>1 DEF CountersTyped, FilesTyped
  <2>2. TypeOK'
    <3>1. FilesTyped'
      BY <1>1, <1>8, <2>1, OpenedLog DEF ReopenLog, OpensLog, Fails, IsFile, FilesTyped
    <3>2. CountersTyped'
      <4>1. failures' \in 0 .. MaxFailures
        BY <1>1, <1>8 DEF ReopenLog, Fails, CountersTyped
      <4>2. open' \in BOOLEAN /\ released' \in BOOLEAN
        BY <1>1, <1>8 DEF ReopenLog, OpensLog, CountersTyped
      <4>3. size' \in Nat
        BY <1>1, <1>8, <2>1, OpenedLog DEF ReopenLog, OpensLog, CountersTyped
      <4> QED
        BY <1>1, <1>8, <4>1, <4>2, <4>3 DEF ReopenLog, CountersTyped
    <3> QED
      BY <3>1, <3>2 DEF TypeOK, FilesTyped, CountersTyped
  <2>3. PendingInv' /\ ShiftInv'
    BY <1>1, <1>8 DEF ReopenLog, PendingInv, ShiftInv
  <2>4. OpenInv'
    BY <1>1, <1>8, <2>1, OpenedLog DEF ReopenLog, OpensLog, OpenInv
  <2> QED
    BY <2>2, <2>3, <2>4 DEF Inv
<1>9. CASE AppendLine
  <2>1. /\ at = "write" /\ pending \in Line /\ pending.n = lines /\ pending.len \in Nat \ {0}
        /\ lines \in 1 .. lines
    BY <1>1, <1>9 DEF AppendLine, PendingInv, CountersTyped, FilesTyped, Line
  <2>2. CASE open /\ \E k \in 0 .. pending.len : log' = Appended(k) /\ size' = size + k
    <3>1. PICK k \in 0 .. pending.len : log' = Appended(k) /\ size' = size + k
      BY <2>2
    <3>2. log \in Seq(Line) /\ size = Length(log) /\ k \in Nat
      BY <1>1, <2>1, <2>2 DEF OpenInv, CountersTyped, FilesTyped, IsFile
    <3>3. log' \in Seq(Line) /\ log' # Missing /\ Length(log') = Length(log) + k
      BY <2>1, <3>1, <3>2, AppendedLine
    <3>4. TypeOK'
      <4>1. FilesTyped'
        BY <1>1, <1>9, <2>1, <3>1, <3>2, <3>3 DEF AppendLine, Fails, IsFile, FilesTyped
      <4>2. CountersTyped'
        <5>1. failures' \in 0 .. MaxFailures
          BY <1>1, <1>9 DEF AppendLine, Fails, CountersTyped
        <5>2. open' \in BOOLEAN /\ released' \in BOOLEAN
          BY <1>1, <1>9 DEF AppendLine, CountersTyped
        <5>3. size' \in Nat
          BY <1>1, <3>1, <3>2 DEF CountersTyped
        <5>4. lost' \subseteq 1 .. lines /\ dropped' \subseteq 1 .. lines
          BY <1>1, <1>9, <2>1 DEF AppendLine, CountersTyped
        <5> QED
          BY <1>1, <1>9, <5>1, <5>2, <5>3, <5>4 DEF AppendLine, CountersTyped
      <4> QED
        BY <4>1, <4>2 DEF TypeOK, FilesTyped, CountersTyped
    <3>5. OpenInv'
      BY <1>1, <1>9, <2>2, <3>1, <3>2, <3>3 DEF AppendLine, OpenInv
    <3> QED
      BY <1>9, <3>4, <3>5 DEF AppendLine, Inv, PendingInv, ShiftInv
  <2>3. CASE ~open /\ log' = log /\ size' = size
    <3>1. TypeOK'
      <4>1. FilesTyped'
        BY <1>1, <1>9, <2>1, <2>3 DEF AppendLine, IsFile, FilesTyped
      <4>2. CountersTyped'
        BY <1>1, <1>9, <2>1, <2>3 DEF AppendLine, CountersTyped
      <4> QED
        BY <4>1, <4>2 DEF TypeOK, FilesTyped, CountersTyped
    <3>2. OpenInv'
      BY <1>1, <1>9, <2>3 DEF AppendLine, OpenInv
    <3> QED
      BY <1>9, <3>1, <3>2 DEF AppendLine, Inv, PendingInv, ShiftInv
  <2> QED
    BY <1>1, <1>9, <2>1, <2>2, <2>3 DEF AppendLine, OpenInv
<1>10. CASE Close
  <2>1. TypeOK'
    <3>1. FilesTyped'
      BY <1>1, <1>10 DEF Close, IsFile, FilesTyped
    <3>2. CountersTyped'
      BY <1>1, <1>10 DEF Close, CountersTyped
    <3> QED
      BY <3>1, <3>2 DEF TypeOK, FilesTyped, CountersTyped
  <2>2. PendingInv' /\ ShiftInv' /\ OpenInv'
    BY <1>1, <1>10 DEF Close, PendingInv, ShiftInv, OpenInv
  <2> QED
    BY <2>1, <2>2 DEF Inv
<1>11. CASE Stop
  <2>1. TypeOK'
    <3>1. FilesTyped'
      BY <1>1, <1>11 DEF Stop, IsFile, FilesTyped
    <3>2. CountersTyped'
      <4>1. open' \in BOOLEAN /\ released' \in BOOLEAN
        BY <1>11 DEF Stop
      <4>2. pending \in Line => pending.n \in 1 .. lines
        BY <1>1, MissingAssumption DEF CountersTyped, PendingInv, Line
      <4>3. lost' \subseteq 1 .. lines
        BY <1>1, <1>11, <4>2 DEF Stop, CountersTyped
      <4>4. 0 \in 0 .. MaxBackups - 1 /\ restarts' \in 0 .. MaxRestarts
        BY <1>1, <1>11 DEF Stop, CountersTyped
      <4> QED
        BY <1>1, <1>11, <4>1, <4>3, <4>4 DEF Stop, CountersTyped
    <3> QED
      BY <3>1, <3>2 DEF TypeOK, FilesTyped, CountersTyped
  <2>2. PendingInv' /\ ShiftInv' /\ OpenInv'
    BY <1>1, <1>11 DEF Stop, PendingInv, ShiftInv, OpenInv
  <2> QED
    BY <2>1, <2>2 DEF Inv
<1>12. CASE UNCHANGED vars
  <2>1. TypeOK'
    BY <1>1, <1>12, TypeParts DEF vars, TypeOK, IsFile
  <2>2. PendingInv' /\ ShiftInv' /\ OpenInv'
    BY <1>1, <1>12 DEF vars, PendingInv, ShiftInv, OpenInv
  <2> QED
    BY <2>1, <2>2 DEF Inv
<1> QED
  BY <1>2, <1>3, <1>4, <1>5, <1>6, <1>7, <1>8, <1>9, <1>10, <1>11, <1>12 DEF Next

\* Types, and where the pending line and the open file are.
THEOREM InvCorrect == Spec => []Inv
  BY FirstState, NextState, PTL DEF Spec

\* Types of the variables.
THEOREM TypeCorrect == Spec => []TypeOK
<1>1. Inv => TypeOK
  BY DEF Inv
<1> QED
  BY <1>1, InvCorrect, PTL

\* The size the writer counts is the size of the file, whatever failed and
\* however often the process was started.
THEOREM SizeCorrect == Spec => []SizeIsCounted
<1>1. Inv => SizeIsCounted
  BY DEF Inv, OpenInv, SizeIsCounted
<1> QED
  BY <1>1, InvCorrect, PTL

-----------------------------------------------------------------------------
(***************************************************************************)
(* The order of the lines.  The files are one function of their age, and a *)
(* rename moves one of them to the next age.                               *)
(***************************************************************************)

Files == [i \in Ages |-> File(i)]

Sorted(f) == f # Missing => \A k, l \in DOMAIN f : k < l => f[k].n < f[l].n

InOrder(F) ==
    /\ \A i \in Ages : Sorted(F[i])
    /\ \A i, j \in Ages : i > j => \A m \in NumbersOf(F[i]), n \in NumbersOf(F[j]) : m < n

NumbersIn(F) == UNION {NumbersOf(F[i]) : i \in Ages}

Moved(F, s) ==
    [i \in Ages |-> IF i = s + 1 THEN F[s] ELSE IF i = s THEN Missing ELSE F[i]]

\* The log and its backups, seen as one function of their age.
LEMMA FilesInOrder ==
    /\ LogInOrder <=> InOrder(Files)
    /\ KeptNumbers = NumbersIn(Files)
<1>1. \A i \in Ages : Files[i] = File(i)
  BY DEF Files
<1>2. LogInOrder <=> InOrder(Files)
  BY <1>1 DEF LogInOrder, InOrder, Sorted
<1>3. KeptNumbers = NumbersIn(Files)
  BY <1>1 DEF KeptNumbers, NumbersIn
<1> QED
  BY <1>2, <1>3

\* A file that is missing or empty holds no line.
LEMMA NumbersOfNothing ==
    /\ NumbersOf(Missing) = {} /\ Sorted(Missing)
    /\ NumbersOf(<<>>) = {} /\ Sorted(<<>>)
  BY DEF NumbersOf, Sorted

\* A rename keeps the order, and every line unless it is over another file.
LEMMA MoveKeepsOrder ==
    ASSUME NEW F, NEW s \in 0 .. MaxBackups - 1, InOrder(F)
    PROVE  /\ InOrder(Moved(F, s))
           /\ NumbersIn(Moved(F, s)) \subseteq NumbersIn(F)
           /\ F[s + 1] = Missing => NumbersIn(Moved(F, s)) = NumbersIn(F)
<1> USE RotationAssumption DEF Ages
<1>1. PICK G : G = Moved(F, s)
  OBVIOUS
<1>2. /\ s \in Ages /\ s + 1 \in Ages
      /\ G[s + 1] = F[s] /\ G[s] = Missing
      /\ \A i \in Ages : i # s /\ i # s + 1 => G[i] = F[i]
  BY <1>1 DEF Moved
<1>3. InOrder(G)
  <2>1. \A i \in Ages : Sorted(G[i])
    BY <1>2, NumbersOfNothing DEF InOrder
  <2>2. ASSUME NEW i \in Ages, NEW j \in Ages, i > j,
               NEW m \in NumbersOf(G[i]), NEW n \in NumbersOf(G[j])
        PROVE  m < n
    <3>1. i # s /\ j # s
      BY <1>2, <2>2, NumbersOfNothing
    <3>2. PICK a : a = IF i = s + 1 THEN s ELSE i
      OBVIOUS
    <3>3. PICK b : b = IF j = s + 1 THEN s ELSE j
      OBVIOUS
    <3>4. a \in Ages /\ b \in Ages /\ a > b
      BY <1>2, <2>2, <3>1, <3>2, <3>3
    <3>5. m \in NumbersOf(F[a]) /\ n \in NumbersOf(F[b])
      BY <1>2, <2>2, <3>1, <3>2, <3>3
    <3> QED
      BY <3>4, <3>5 DEF InOrder
  <2> QED
    BY <2>1, <2>2 DEF InOrder
<1>4. NumbersIn(G) \subseteq NumbersIn(F)
  BY <1>2, NumbersOfNothing DEF NumbersIn
<1>5. F[s + 1] = Missing => NumbersIn(F) \subseteq NumbersIn(G)
  BY <1>2, NumbersOfNothing DEF NumbersIn
<1> QED
  BY <1>1, <1>3, <1>4, <1>5

\* Without the oldest file, the order stays, and only its lines are gone.
LEMMA RemoveKeepsOrder ==
    ASSUME NEW F, F = [i \in Ages |-> F[i]], InOrder(F),
           NEW G, G = [F EXCEPT ![MaxBackups] = Missing]
    PROVE  /\ InOrder(G)
           /\ NumbersIn(G) \subseteq NumbersIn(F)
           /\ \A m \in NumbersIn(F) : m \in NumbersIn(G) \/ \A n \in NumbersIn(G) : m < n
<1> USE RotationAssumption DEF Ages
<1>1. /\ MaxBackups \in Ages /\ G[MaxBackups] = Missing
      /\ \A i \in Ages : i # MaxBackups => G[i] = F[i] /\ MaxBackups > i
  OBVIOUS
<1>2. InOrder(G)
  BY <1>1, NumbersOfNothing DEF InOrder
<1>3. NumbersIn(G) \subseteq NumbersIn(F)
  BY <1>1, NumbersOfNothing DEF NumbersIn
<1>4. ASSUME NEW m \in NumbersIn(F), NEW n \in NumbersIn(G)
      PROVE  m \in NumbersIn(G) \/ m < n
  <2>1. PICK i \in Ages : m \in NumbersOf(F[i])
    BY DEF NumbersIn
  <2>2. PICK j \in Ages : n \in NumbersOf(G[j])
    BY DEF NumbersIn
  <2>3. j # MaxBackups /\ n \in NumbersOf(F[j])
    BY <1>1, <2>2, NumbersOfNothing
  <2>4. CASE i = MaxBackups
    BY <1>1, <2>1, <2>3, <2>4 DEF InOrder
  <2>5. CASE i # MaxBackups
    BY <1>1, <2>1, <2>5 DEF NumbersIn
  <2> QED
    BY <2>4, <2>5
<1> QED
  BY <1>2, <1>3, <1>4

\* A line newer than all others may be added to the log, or none.
LEMMA GrowthKeepsOrder ==
    ASSUME NEW F, F = [i \in Ages |-> F[i]], InOrder(F), NEW f, NEW g,
           Sorted(f), NEW N, NumbersOf(f) = NumbersOf(F[0]) \cup N,
           \A m \in NumbersIn(F), n \in N : m < n,
           g = [F EXCEPT ![0] = f]
    PROVE  /\ InOrder(g)
           /\ NumbersIn(g) = NumbersIn(F) \cup N
<1> USE RotationAssumption DEF Ages
<1>1. 0 \in Ages /\ g[0] = f /\ \A i \in Ages : i # 0 => g[i] = F[i]
  OBVIOUS
<1>2. ASSUME NEW i \in Ages, NEW j \in Ages, i > j,
             NEW m \in NumbersOf(g[i]), NEW n \in NumbersOf(g[j])
      PROVE  m < n
  <2>1. i # 0 /\ m \in NumbersOf(F[i]) /\ m \in NumbersIn(F)
    BY <1>1, <1>2 DEF NumbersIn
  <2>2. CASE n \in NumbersOf(F[j])
    BY <1>2, <2>1, <2>2 DEF InOrder
  <2>3. CASE n \in N
    BY <2>1, <2>3
  <2> QED
    BY <1>1, <2>2, <2>3
<1>3. InOrder(g)
  BY <1>1, <1>2 DEF InOrder
<1>4. NumbersIn(g) = NumbersIn(F) \cup N
  BY <1>1 DEF NumbersIn
<1> QED
  BY <1>3, <1>4

\* The same after a step.
LEMMA FilesInOrderNext ==
    /\ LogInOrder' <=> InOrder(Files')
    /\ KeptNumbers' = NumbersIn(Files')
<1>1. \A i \in Ages : Files'[i] = File(i)'
  BY DEF Files
<1>2. LogInOrder' <=> InOrder(Files')
  BY <1>1 DEF LogInOrder, InOrder, Sorted
<1>3. KeptNumbers' = NumbersIn(Files')
  BY <1>1 DEF KeptNumbers, NumbersIn
<1> QED
  BY <1>2, <1>3

\* What touches no file keeps the order.
LEMMA FilesStay ==
    ASSUME UNCHANGED <<log, backup>>
    PROVE  (LogInOrder' <=> LogInOrder) /\ KeptNumbers' = KeptNumbers
<1>1. Files' = Files
  BY DEF Files, File
<1> QED
  BY <1>1, FilesInOrder, FilesInOrderNext

\* Opening creates an empty file or leaves the one that is there.
LEMMA OpeningKeepsOrder ==
    ASSUME LogInOrder, log' = ContentOnOpen(log), UNCHANGED backup
    PROVE  LogInOrder' /\ KeptNumbers' = KeptNumbers
<1>1. CASE log # Missing
  BY <1>1, FilesStay DEF ContentOnOpen
<1>2. CASE log = Missing
  <2>1. log' = <<>> /\ NumbersOf(log') = NumbersOf(Files[0]) \cup {} /\ Sorted(log')
    <3>1. log' = <<>>
      BY <1>2 DEF ContentOnOpen
    <3>2. Files[0] = Missing
      BY <1>2, RotationAssumption DEF Files, File, Ages
    <3> QED
      BY <3>1, <3>2, NumbersOfNothing
  <2>2. Files' = [Files EXCEPT ![0] = log'] /\ Files = [i \in Ages |-> Files[i]]
    BY RotationAssumption DEF Files, File, Ages
  <2>3. InOrder(Files') /\ NumbersIn(Files') = NumbersIn(Files) \cup {}
    BY <2>1, <2>2, FilesInOrder, GrowthKeepsOrder
  <2> QED
    BY <2>3, FilesInOrder, FilesInOrderNext
<1> QED
  BY <1>1, <1>2

\* Removing the oldest backup takes lines that are older than all others.
LEMMA RemovingKeepsOrder ==
    ASSUME Inv, LogInOrder, RemoveOldest
    PROVE  /\ LogInOrder'
           /\ KeptNumbers' \subseteq KeptNumbers
           /\ \A m \in KeptNumbers : m \in KeptNumbers' \/ \A n \in KeptNumbers' : m < n
<1>1. CASE UNCHANGED backup
  BY <1>1, FilesStay DEF RemoveOldest
<1>2. CASE backup' = [backup EXCEPT ![MaxBackups] = Missing]
  <2>1. Files' = [Files EXCEPT ![MaxBackups] = Missing] /\ Files = [i \in Ages |-> Files[i]]
    <3>1. MaxBackups \in Backups /\ DOMAIN backup = Backups
      BY RotationAssumption DEF Inv, TypeOK, Backups
    <3>2. \A i \in Backups : backup'[i] = IF i = MaxBackups THEN Missing ELSE backup[i]
      BY <1>2, <3>1
    <3>3. Files' = [i \in Ages |-> IF i = MaxBackups THEN Missing ELSE Files[i]]
      BY <3>1, <3>2, RotationAssumption DEF RemoveOldest, Files, File, Ages, Backups
    <3> QED
      BY <3>3 DEF Files
  <2> QED
    BY <2>1, FilesInOrder, FilesInOrderNext, RemoveKeepsOrder
<1> QED
  BY <1>1, <1>2 DEF RemoveOldest

\* A backup that takes the next name loses nothing unless a file was there.
LEMMA ShiftingKeepsOrder ==
    ASSUME Inv, LogInOrder, ShiftBackup
    PROVE  /\ LogInOrder'
           /\ KeptNumbers' \subseteq KeptNumbers
           /\ backup[shift + 1] = Missing => KeptNumbers' = KeptNumbers
<1>1. CASE UNCHANGED backup
  BY <1>1, FilesStay DEF ShiftBackup
<1>2. CASE backup' = Renamed
  <2>1. FilesTyped /\ shift \in Backups /\ shift + 1 \in Backups
    BY RotationAssumption, TypeParts DEF Inv, ShiftInv, CountersTyped, Backups, ShiftBackup
  <2>2. backup' = [i \in Backups |-> IF i = shift + 1 THEN backup[shift]
                                     ELSE IF i = shift THEN Missing ELSE backup[i]]
    BY <1>2, <2>1, RenamedBackups
  <2>3. Files' = Moved(Files, shift) /\ Files[shift + 1] = backup[shift + 1]
    BY <2>1, <2>2 DEF Files, File, Ages, Backups, Moved, ShiftBackup
  <2>4. shift \in 0 .. MaxBackups - 1
    BY TypeParts DEF Inv, CountersTyped
  <2> QED
    BY <2>3, <2>4, FilesInOrder, FilesInOrderNext, MoveKeepsOrder
<1> QED
  BY <1>1, <1>2 DEF ShiftBackup

\* The log that becomes the first backup loses nothing unless a file was there.
LEMMA MovingKeepsOrder ==
    ASSUME Inv, LogInOrder, MoveLog
    PROVE  /\ LogInOrder'
           /\ KeptNumbers' \subseteq KeptNumbers
           /\ backup[1] = Missing => KeptNumbers' = KeptNumbers
<1>1. CASE UNCHANGED <<backup, log>>
  BY <1>1, FilesStay
<1>2. CASE backup' = [backup EXCEPT ![1] = log] /\ log' = Missing
  <2>1. Files' = Moved(Files, 0) /\ Files[0 + 1] = backup[1]
    BY <1>2, RotationAssumption DEF Files, File, Ages, Backups, Moved, Inv, TypeOK
  <2>2. 0 \in 0 .. MaxBackups - 1
    BY RotationAssumption
  <2> QED
    BY <2>1, <2>2, FilesInOrder, FilesInOrderNext, MoveKeepsOrder
<1> QED
  BY <1>1, <1>2 DEF MoveLog

\* A line, or a part of it, goes behind everything that was written before.
LEMMA AppendingKeepsOrder ==
    ASSUME Inv, LogInOrder, NumberInv, pending \in Line, log \in Seq(Line),
           NEW k \in 0 .. pending.len, log' = Appended(k), UNCHANGED backup
    PROVE  /\ LogInOrder'
           /\ KeptNumbers' = KeptNumbers \cup (IF k = 0 THEN {} ELSE {pending.n})
<1>1. CASE k = 0
  BY <1>1, FilesStay DEF Appended
<1>2. CASE k # 0
  <2>1. PICK f : f = log'
    OBVIOUS
  <2>2. /\ f \in Seq(Line) /\ f # Missing
        /\ Len(f) = Len(log) + 1
        /\ \A j \in 1 .. Len(log) : f[j] = log[j]
        /\ f[Len(log) + 1].n = pending.n
    BY <1>2, <2>1, AppendedLine
  <2>3. pending # Missing /\ log # Missing
    BY MissingAssumption
  <2>4. DOMAIN f = 1 .. Len(log) + 1 /\ DOMAIN log = 1 .. Len(log) /\ Len(log) \in Nat
    BY <2>2
  <2>5. NumbersOf(f) = NumbersOf(log) \cup {pending.n}
    BY <2>2, <2>3, <2>4 DEF NumbersOf
  <2>6. Files[0] = log /\ 0 \in Ages
    BY RotationAssumption DEF Files, File, Ages
  <2>7. \A m \in KeptNumbers : m < pending.n
    BY <2>3 DEF Inv, PendingInv, NumberInv
  <2>8. \A j \in 1 .. Len(log) : log[j].n < pending.n
    <3>1. \A j \in 1 .. Len(log) : log[j].n \in NumbersOf(log)
      BY <2>3, <2>4 DEF NumbersOf
    <3>2. NumbersOf(log) \subseteq KeptNumbers
      BY <2>6, FilesInOrder DEF NumbersIn
    <3> QED
      BY <2>7, <3>1, <3>2
  <2>9. Sorted(log)
    BY <2>6, FilesInOrder DEF InOrder
  <2>10. Sorted(f)
    BY <2>2, <2>3, <2>4, <2>8, <2>9 DEF Sorted
  <2>11. Files' = [Files EXCEPT ![0] = f] /\ Files = [i \in Ages |-> Files[i]]
    BY <2>1, RotationAssumption DEF Files, File, Ages
  <2>12. InOrder(Files') /\ NumbersIn(Files') = NumbersIn(Files) \cup {pending.n}
    BY <2>5, <2>6, <2>7, <2>10, <2>11, FilesInOrder, GrowthKeepsOrder
  <2> QED
    BY <1>2, <2>12, FilesInOrder, FilesInOrderNext
<1> QED
  BY <1>1, <1>2

\* Every step keeps the lines in order and the next number the highest.
LEMMA OrderStep == Inv /\ Inv' /\ NumberInv /\ LogInOrder /\ [Next]_vars => NumberInv' /\ LogInOrder'
<1> SUFFICES ASSUME Inv, Inv', NumberInv, LogInOrder, [Next]_vars
             PROVE  NumberInv' /\ LogInOrder'
  OBVIOUS
<1>1. lines \in Nat /\ PendingInv /\ FilesTyped
  BY RotationAssumption, TypeParts DEF Inv, CountersTyped
<1>2. CASE Setup
  BY <1>1, <1>2, OpeningKeepsOrder DEF Setup, OpensLog, NumberInv
<1>3. ASSUME NEW len \in Lengths, Write(len) PROVE NumberInv' /\ LogInOrder'
  BY <1>1, <1>3, FilesStay DEF Write, NumberInv
<1>4. CASE CloseLog
  BY <1>4, FilesStay DEF CloseLog, NumberInv
<1>5. CASE RemoveOldest
  BY <1>5, RemovingKeepsOrder DEF RemoveOldest, NumberInv
<1>6. CASE ShiftBackup
  BY <1>6, ShiftingKeepsOrder DEF ShiftBackup, NumberInv
<1>7. CASE MoveLog
  BY <1>7, MovingKeepsOrder DEF MoveLog, NumberInv
<1>8. CASE ReopenLog
  <2>1. UNCHANGED <<backup, pending, lines>> /\ (log' = log \/ log' = ContentOnOpen(log))
    BY <1>8 DEF ReopenLog, OpensLog
  <2> QED
    BY <2>1, OpeningKeepsOrder, FilesStay DEF NumberInv
<1>9. CASE AppendLine
  <2>1. pending \in Line /\ pending.n = lines /\ pending.len \in Nat
    BY <1>1, <1>9 DEF AppendLine, PendingInv, Line
  <2>2. CASE log' = log
    BY <1>1, <1>9, <2>2, FilesStay DEF AppendLine, NumberInv
  <2>3. CASE open /\ \E k \in 0 .. pending.len : log' = Appended(k)
    <3>1. log \in Seq(Line)
      BY <1>1, <2>3 DEF FilesTyped, IsFile, Inv, OpenInv
    <3>2. PICK k \in 0 .. pending.len : log' = Appended(k)
      BY <2>3
    <3>3. LogInOrder' /\ KeptNumbers' \subseteq KeptNumbers \cup {lines}
      BY <1>9, <2>1, <3>1, <3>2, AppendingKeepsOrder DEF AppendLine
    <3>4. lines \in 1 .. lines
      BY <1>1, <2>1 DEF Line
    <3> QED
      BY <1>9, <3>3, <3>4 DEF AppendLine, NumberInv
  <2> QED
    BY <1>9, <2>1, <2>2, <2>3 DEF AppendLine
<1>10. CASE Close
  BY <1>10, FilesStay DEF Close, NumberInv
<1>11. CASE Stop
  BY <1>11, FilesStay DEF Stop, NumberInv
<1>12. CASE UNCHANGED vars
  BY <1>12, FilesStay DEF vars, NumberInv
<1> QED
  BY <1>2, <1>3, <1>4, <1>5, <1>6, <1>7, <1>8, <1>9, <1>10, <1>11, <1>12 DEF Next

\* No files hold no lines.
LEMMA FirstOrder == Init => NumberInv /\ LogInOrder /\ KeptNumbers = {}
<1> SUFFICES ASSUME Init PROVE NumberInv /\ LogInOrder /\ KeptNumbers = {}
  OBVIOUS
<1>1. \A i \in Ages : File(i) = Missing
  BY DEF Init, File, Ages, Backups
<1> QED
  BY <1>1, NumbersOfNothing DEF NumberInv, KeptNumbers, LogInOrder

OrderInv == Inv /\ NumberInv /\ LogInOrder

\* The lines in the files are in the order in which they were written, each at
\* most once, whatever failed or crashed.
THEOREM OrderCorrect == Spec => []OrderInv
<1>1. Init => OrderInv
  BY FirstState, FirstOrder DEF OrderInv
<1>2. OrderInv /\ [Next]_vars => OrderInv'
  BY NextState, OrderStep DEF OrderInv
<1> QED
  BY <1>1, <1>2, PTL DEF Spec

\* The same, as the run states it.
THEOREM InOrderCorrect == Spec => []LogInOrder
<1>1. OrderInv => LogInOrder
  BY DEF OrderInv
<1> QED
  BY <1>1, OrderCorrect, PTL

-----------------------------------------------------------------------------
(***************************************************************************)
(* Without failures.                                                       *)
(***************************************************************************)

\* A step without a failure keeps what holds without failures.
LEMMA FlawlessStep == Inv /\ Inv' /\ FlawlessInv /\ [Next]_vars => FlawlessInv'
<1> SUFFICES ASSUME Inv, Inv', FlawlessInv, [Next]_vars, failures' = 0 PROVE FlawlessInv'
  BY DEF FlawlessInv
<1> USE RotationAssumption
<1>1. /\ failures \in Nat /\ size \in Nat /\ shift \in 0 .. MaxBackups - 1
      /\ FilesTyped /\ OpenInv /\ ShiftInv /\ PendingInv
  BY TypeParts DEF Inv, CountersTyped
<1>2. ~ Fails
  BY <1>1 DEF Fails
<1>3. CASE Setup
  BY <1>3 DEF Setup, OpensLog, FlawlessInv
<1>4. ASSUME NEW len \in Lengths, Write(len) PROVE FlawlessInv'
  <2>1. len \in Nat
    OBVIOUS
  <2>2. failures = 0 /\ (~released => open)
    BY <1>4 DEF Write, FlawlessInv
  <2>3. at' = "write" /\ open' => size' + pending'.len <= MaxBytes
    BY <1>1, <1>4, <2>1 DEF Write, Full, OpenInv
  <2> QED
    BY <1>4, <2>2, <2>3 DEF Write, FlawlessInv
<1>5. CASE CloseLog
  BY <1>1, <1>2, <1>5 DEF CloseLog, FlawlessInv, OpenInv
<1>6. CASE RemoveOldest
  <2>1. backup' = [backup EXCEPT ![MaxBackups] = Missing] /\ UNCHANGED failures
    BY <1>2, <1>6 DEF RemoveOldest
  <2>2. backup'[MaxBackups] = Missing
    BY <1>1, <2>1 DEF FilesTyped, Backups
  <2>3. shift' + 1 = MaxBackups /\ (at' = "move" => MaxBackups = 1)
    BY <1>6 DEF RemoveOldest, FirstShift
  <2> QED
    BY <1>6, <2>1, <2>2, <2>3 DEF RemoveOldest, FlawlessInv
<1>7. CASE ShiftBackup
  <2>1. FilesTyped /\ shift \in Backups /\ shift + 1 \in Backups
    BY <1>1, <1>7 DEF ShiftInv, Backups, ShiftBackup
  <2>2. backup'[shift] = Missing
    <3>1. CASE backup[shift] = Missing /\ UNCHANGED backup
      BY <3>1
    <3>2. CASE backup' = Renamed
      <4>1. shift # shift + 1
        BY <1>1
      <4> QED
        BY <2>1, <3>2, <4>1, RenamedBackups
    <3> QED
      BY <1>2, <1>7, <3>1, <3>2 DEF ShiftBackup
  <2>3. shift' + 1 = shift /\ (at' = "move" => shift = 1)
    BY <1>1, <1>7 DEF ShiftBackup
  <2> QED
    BY <1>7, <2>2, <2>3 DEF ShiftBackup, FlawlessInv
<1>8. CASE MoveLog
  BY <1>2, <1>8 DEF MoveLog, FlawlessInv
<1>9. CASE ReopenLog
  <2>1. OpensLog /\ failures = 0
    BY <1>2, <1>9 DEF ReopenLog
  <2>2. log = Missing
    BY <1>9, <2>1 DEF ReopenLog, FlawlessInv
  <2> QED
    BY <1>9, <2>1, <2>2 DEF ReopenLog, OpensLog, ContentOnOpen, FlawlessInv
<1>10. CASE AppendLine
  BY <1>2, <1>10 DEF AppendLine, FlawlessInv
<1>11. CASE Close
  BY <1>11 DEF Close, FlawlessInv
<1>12. CASE Stop
  BY <1>12 DEF Stop, FlawlessInv
<1>13. CASE UNCHANGED vars
  BY <1>13 DEF vars, FlawlessInv
<1> QED
  BY <1>3, <1>4, <1>5, <1>6, <1>7, <1>8, <1>9, <1>10, <1>11, <1>12, <1>13 DEF Next

\* As long as nothing fails, a line only goes when all that are kept are newer.
LEMMA GoStep ==
    OrderInv /\ Inv' /\ FlawlessInv /\ OnlyOldestLinesGo /\ [Next]_vars => OnlyOldestLinesGo'
<1> SUFFICES ASSUME OrderInv, Inv', FlawlessInv, OnlyOldestLinesGo, [Next]_vars, failures' = 0
             PROVE  OnlyOldestLinesGo'
  BY DEF OnlyOldestLinesGo
<1>1. /\ Inv /\ NumberInv /\ LogInOrder
      /\ failures \in Nat /\ lines \in Nat
      /\ FilesTyped /\ OpenInv /\ PendingInv
  BY RotationAssumption, TypeParts DEF OrderInv, Inv, CountersTyped
<1>2. ~ Fails
  BY <1>1 DEF Fails
<1>3. \A m \in KeptNumbers : m \in 1 .. lines
  BY <1>1 DEF NumberInv
<1>4. CASE /\ UNCHANGED <<pending, lines, lost, failures>>
           /\ KeptNumbers' = KeptNumbers
  BY <1>4 DEF OnlyOldestLinesGo
<1>5. CASE Setup
  BY <1>1, <1>4, <1>5, OpeningKeepsOrder DEF Setup, OpensLog
<1>6. ASSUME NEW len \in Lengths, Write(len) PROVE OnlyOldestLinesGo'
  <2>1. /\ KeptNumbers' = KeptNumbers /\ pending' # Missing /\ pending'.n = lines + 1
        /\ pending = Missing /\ failures = 0 /\ lines' = lines + 1 /\ lost' = lost
    <3>1. pending' # Missing
      BY <1>6, MissingAssumption DEF Inv, PendingInv, Write
    <3> QED
      BY <1>1, <1>6, <3>1, FilesStay DEF Write, PendingInv
  <2>2. ASSUME NEW n \in KeptNumbers, NEW m \in n .. lines + 1
        PROVE  m \in KeptNumbers \cup lost \/ m = lines + 1
    BY <1>1, <1>3, <2>1, <2>2 DEF OnlyOldestLinesGo
  <2> QED
    BY <2>1, <2>2 DEF OnlyOldestLinesGo
<1>7. CASE CloseLog
  BY <1>2, <1>4, <1>7, FilesStay DEF CloseLog
<1>8. CASE RemoveOldest
  <2>1. /\ KeptNumbers' \subseteq KeptNumbers
        /\ \A m \in KeptNumbers : m \in KeptNumbers' \/ \A n \in KeptNumbers' : m < n
    BY <1>1, <1>8, RemovingKeepsOrder
  <2>2. UNCHANGED <<pending, lines, lost, failures>>
    BY <1>2, <1>8 DEF RemoveOldest
  <2>3. ASSUME NEW n \in KeptNumbers', NEW m \in n .. lines
        PROVE  m \in KeptNumbers' \cup lost \/ (pending # Missing /\ m = pending.n)
    <3>1. n \in KeptNumbers /\ n \in Int /\ m >= n
      BY <1>3, <2>1
    <3>2. m \in KeptNumbers \cup lost \/ (pending # Missing /\ m = pending.n)
      BY <2>2, <3>1 DEF OnlyOldestLinesGo
    <3>3. m \in KeptNumbers => m \in KeptNumbers'
      BY <2>1, <3>1
    <3> QED
      BY <3>2, <3>3
  <2> QED
    BY <2>2, <2>3 DEF OnlyOldestLinesGo
<1>9. CASE ShiftBackup
  <2>1. UNCHANGED <<pending, lines, lost, failures>>
    BY <1>2, <1>9 DEF ShiftBackup
  <2>2. backup[shift + 1] = Missing
    BY <1>9, <2>1 DEF ShiftBackup, FlawlessInv
  <2> QED
    BY <1>1, <1>4, <1>9, <2>1, <2>2, ShiftingKeepsOrder
<1>10. CASE MoveLog
  <2>1. UNCHANGED <<pending, lines, lost, failures>>
    BY <1>2, <1>10 DEF MoveLog
  <2>2. backup[1] = Missing
    BY <1>10, <2>1 DEF MoveLog, FlawlessInv
  <2> QED
    BY <1>1, <1>4, <1>10, <2>1, <2>2, MovingKeepsOrder
<1>11. CASE ReopenLog
  <2>1. OpensLog /\ UNCHANGED <<backup, pending, lines, lost, failures>>
    BY <1>2, <1>11 DEF ReopenLog
  <2> QED
    BY <1>1, <1>4, <2>1, OpeningKeepsOrder DEF OpensLog
<1>12. CASE AppendLine
  <2>1. pending \in Line /\ pending # Missing /\ pending.n = lines /\ pending.len \in Nat \ {0}
    BY <1>1, <1>12, MissingAssumption DEF AppendLine, PendingInv, Line
  <2>2. KeptNumbers' \cup lost' = KeptNumbers \cup lost \cup {lines} /\ failures = 0
    <3>1. CASE open /\ log' = Appended(pending.len) /\ UNCHANGED <<lost, failures>>
      <4>1. log \in Seq(Line)
        BY <1>1, <3>1 DEF OpenInv, FilesTyped, IsFile
      <4>2. KeptNumbers' = KeptNumbers \cup {pending.n}
        BY <1>1, <1>12, <2>1, <3>1, <4>1, AppendingKeepsOrder DEF AppendLine
      <4> QED
        BY <2>1, <3>1, <4>2
    <3>2. CASE released /\ lost' = lost \cup {pending.n} /\ UNCHANGED <<log, failures>>
      BY <1>12, <2>1, <3>2, FilesStay DEF AppendLine
    <3>3. ~(~open /\ ~released /\ UNCHANGED failures)
      BY <1>12 DEF AppendLine, FlawlessInv
    <3> QED
      BY <1>2, <1>12, <3>1, <3>2, <3>3 DEF AppendLine
  <2>3. KeptNumbers' \subseteq KeptNumbers \cup {lines}
    <3>1. CASE log' = log
      BY <1>12, <3>1, FilesStay DEF AppendLine
    <3>2. CASE open /\ log' = Appended(pending.len)
      <4>1. log \in Seq(Line)
        BY <1>1, <3>2 DEF OpenInv, FilesTyped, IsFile
      <4> QED
        BY <1>1, <1>12, <2>1, <3>2, <4>1, AppendingKeepsOrder DEF AppendLine
    <3> QED
      BY <1>2, <1>12, <3>1, <3>2 DEF AppendLine
  <2>4. ASSUME NEW n \in KeptNumbers', NEW m \in n .. lines
        PROVE  m \in KeptNumbers' \cup lost'
    <3>1. CASE n = lines
      BY <1>1, <2>2, <3>1
    <3>2. CASE n \in KeptNumbers
      BY <2>1, <2>2, <3>2 DEF OnlyOldestLinesGo
    <3> QED
      BY <2>3, <3>1, <3>2
  <2>5. lines' = lines
    BY <1>12 DEF AppendLine
  <2> QED
    BY <2>4, <2>5 DEF OnlyOldestLinesGo
<1>13. CASE Close
  BY <1>4, <1>13, FilesStay DEF Close
<1>14. CASE Stop
  <2>1. KeptNumbers' = KeptNumbers /\ lines' = lines /\ failures = 0
    BY <1>14, FilesStay DEF Stop
  <2>2. lost \subseteq lost' /\ (pending # Missing => pending.n \in lost')
    BY <1>14 DEF Stop
  <2> QED
    BY <2>1, <2>2 DEF OnlyOldestLinesGo
<1>15. CASE UNCHANGED vars
  BY <1>4, <1>15, FilesStay DEF vars
<1> QED
  BY <1>5, <1>6, <1>7, <1>8, <1>9, <1>10, <1>11, <1>12, <1>13, <1>14, <1>15 DEF Next

\* Without a failing file system only the oldest lines go, however often the
\* process crashes, also in the middle of a rotation.
THEOREM OldestGoCorrect == Spec => []OnlyOldestLinesGo
<1> DEFINE I == OrderInv /\ FlawlessInv /\ OnlyOldestLinesGo
<1>1. Init => I
  <2>1. Init => FlawlessInv
    BY DEF Init, FlawlessInv
  <2>2. Init => OnlyOldestLinesGo
    BY FirstOrder DEF OnlyOldestLinesGo
  <2> QED
    BY <2>1, <2>2, FirstState, FirstOrder DEF OrderInv
<1>2. I /\ [Next]_vars => I'
  BY NextState, OrderStep, FlawlessStep, GoStep DEF OrderInv
<1>3. I => OnlyOldestLinesGo
  OBVIOUS
<1> QED
  BY <1>1, <1>2, <1>3, PTL DEF Spec

-----------------------------------------------------------------------------
\* A file keeps the limit, or is a single line.
Kept(f) == Length(f) <= MaxBytes \/ Len(f) = 1

\* A missing or empty file keeps the limit.
LEMMA NothingIsKept == Kept(Missing) /\ Kept(<<>>)
  BY LengthOfNothing, RotationAssumption DEF Kept

\* As long as nothing fails, a line that would pass the limit comes after a
\* rotation.
LEMMA LimitStep == Inv /\ FlawlessInv /\ WithinLimit /\ [Next]_vars => WithinLimit'
<1> SUFFICES ASSUME Inv, FlawlessInv, WithinLimit, [Next]_vars, failures' = 0
             PROVE  \A i \in Ages : Kept(File(i)')
  BY DEF WithinLimit, Kept
<1>1. failures \in Nat /\ FilesTyped /\ OpenInv /\ ShiftInv /\ PendingInv
  BY RotationAssumption, TypeParts DEF Inv, CountersTyped
<1>2. failures = 0 /\ ~ Fails
  BY <1>1 DEF Fails, Next, vars, Setup, Write, CloseLog, RemoveOldest, ShiftBackup, MoveLog,
              ReopenLog, AppendLine, Close, Stop
<1>3. Kept(log) /\ \A i \in Backups : Kept(backup[i])
  <2>1. \A i \in Ages : Kept(File(i))
    BY <1>2 DEF WithinLimit, Kept
  <2> QED
    BY <2>1, RotationAssumption DEF File, Ages, Backups
<1>4. SUFFICES Kept(log') /\ \A i \in Backups : Kept(backup'[i])
  BY <1>4 DEF File, Ages, Backups
<1>5. CASE UNCHANGED <<log, backup>>
  BY <1>3, <1>5
<1>6. CASE log' = ContentOnOpen(log) /\ UNCHANGED backup
  BY <1>3, <1>6, NothingIsKept DEF ContentOnOpen
<1>7. CASE RemoveOldest
  <2>1. \A i \in Backups : backup'[i] = backup[i] \/ backup'[i] = Missing
    BY <1>1, <1>7 DEF RemoveOldest, FilesTyped
  <2> QED
    BY <1>3, <1>7, <2>1, NothingIsKept DEF RemoveOldest
<1>8. CASE ShiftBackup
  <2>1. shift \in Backups /\ shift + 1 \in Backups
    BY <1>1, <1>8, RotationAssumption, TypeParts DEF Inv, ShiftInv, CountersTyped, Backups, ShiftBackup
  <2>2. \A i \in Backups :
            backup'[i] = backup[i] \/ backup'[i] = backup[shift] \/ backup'[i] = Missing
    BY <1>1, <1>8, <2>1, RenamedBackups DEF ShiftBackup
  <2> QED
    BY <1>3, <1>8, <2>1, <2>2, NothingIsKept DEF ShiftBackup
<1>9. CASE MoveLog
  <2>1. \A i \in Backups : backup'[i] = backup[i] \/ backup'[i] = log
    BY <1>1, <1>9 DEF MoveLog, FilesTyped
  <2> QED
    BY <1>3, <1>9, <2>1, NothingIsKept DEF MoveLog
<1>10. CASE AppendLine /\ open
  <2>1. log' = Appended(pending.len) /\ UNCHANGED backup
    BY <1>1, <1>2, <1>10 DEF AppendLine, OpenInv
  <2>2. pending \in Line /\ pending.len \in Nat \ {0}
    BY <1>1, <1>10 DEF AppendLine, PendingInv, Line
  <2>3. log \in Seq(Line) /\ size = Length(log)
    BY <1>1, <1>10 DEF OpenInv, FilesTyped, IsFile
  <2>4. /\ Length(log') = size + pending.len
        /\ Len(log') = Len(log) + 1
    BY <2>1, <2>2, <2>3, AppendedLine
  <2>5. size + pending.len <= MaxBytes \/ log = <<>>
    BY <1>2, <1>10 DEF AppendLine, FlawlessInv
  <2>6. log = <<>> => Len(log) + 1 = 1
    OBVIOUS
  <2>7. Kept(log')
    BY <2>4, <2>5, <2>6 DEF Kept
  <2> QED
    BY <1>3, <2>1, <2>7
<1> QED
  <2>1. CASE \/ Setup \/ ReopenLog
    BY <1>2, <1>6, <2>1 DEF Setup, ReopenLog, OpensLog
  <2>2. CASE \/ \E len \in Lengths : Write(len)
             \/ CloseLog \/ Close \/ Stop \/ UNCHANGED vars
    BY <1>5, <2>2 DEF Write, CloseLog, Close, Stop, vars
  <2>3. CASE AppendLine /\ ~open
    BY <1>5, <2>3 DEF AppendLine
  <2> QED
    BY <1>7, <1>8, <1>9, <1>10, <2>1, <2>2, <2>3 DEF Next

\* Without a failing file system no file outgrows the limit, also after a
\* restart on a file that was there before, except for a single longer line.
THEOREM LimitCorrect == Spec => []WithinLimit
<1> DEFINE I == Inv /\ FlawlessInv /\ WithinLimit
<1>1. Init => I
  <2>1. Init => FlawlessInv
    BY DEF Init, FlawlessInv
  <2>2. Init => WithinLimit
    <3> SUFFICES ASSUME Init PROVE WithinLimit
      OBVIOUS
    <3>1. \A i \in Ages : File(i) = Missing
      BY DEF Init, File, Ages, Backups
    <3> QED
      BY <3>1, NothingIsKept DEF WithinLimit, Kept
  <2> QED
    BY <2>1, <2>2, FirstState
<1>2. I /\ [Next]_vars => I'
  BY NextState, FlawlessStep, LimitStep
<1>3. I => WithinLimit
  OBVIOUS
<1> QED
  BY <1>1, <1>2, <1>3, PTL DEF Spec

=============================================================================
