----------------------- MODULE IncrementalWriterProofs -----------------------
(***************************************************************************)
(* SavedSurvives for every number of threads, sequences and crashes.  The  *)
(* argument is the lock's: one save at a time is under way, and how much   *)
(* of its line is in the buffer or at the end of the file is known from    *)
(* where it is, so that the fsync it returns after covers the whole line.  *)
(***************************************************************************)
EXTENDS IncrementalWriter, SequenceTheorems, TLAPS

WriterSpec == WriterInit /\ [][WriterNext]_writerVars

Pieces == (SeqIds \X {1, 2}) \cup {NL}
Active == {"line", "newline", "flush", "sync"}

WriterTyped ==
    /\ saves \in [SeqIds -> Active \cup {"new", "saved", "failed"}]
    /\ lock \in SeqIds \cup {"free"}
    /\ buffer \in Seq(Pieces) /\ file \in Seq(Pieces)
    /\ durable \in Nat /\ durable <= Len(file)

(* Only the save that holds the lock is under way. *)
OneAtATime == \A s \in SeqIds : saves[s] \in Active => lock = s

(* What the buffer holds, and what the file ends with before fsync. *)
InBuffer ==
    /\ lock = "free" => buffer = <<>>
    /\ \A s \in SeqIds :
         /\ saves[s] \in {"line", "sync"} => buffer = <<>>
         /\ saves[s] = "newline" => buffer = Line(s)
         /\ saves[s] = "flush" => buffer = Append(Line(s), NL)
         /\ saves[s] = "sync" => Len(file) >= 3 /\ LineAt(s, Len(file) - 2)

(* The lock is held by a save that is under way. *)
HeldByActive == lock # "free" => saves[lock] \in Active

WriterInv == WriterTyped /\ OneAtATime /\ HeldByActive /\ InBuffer /\ SavedSurvives

LEMMA Appended ==
  ASSUME NEW S, NEW l \in Seq(S), NEW e \in S
  PROVE  Len(l) = 2 => /\ Len(Append(l, e)) = 3 /\ Append(l, e)[3] = e
                       /\ \A i \in 1 .. 2 : Append(l, e)[i] = l[i]
  <1>1. /\ Len(Append(l, e)) = Len(l) + 1 /\ Append(l, e)[Len(l) + 1] = e
        /\ \A i \in 1 .. Len(l) : Append(l, e)[i] = l[i]
    BY AppendProperties
  <1>2. Len(l) = 2 => Len(l) + 1 = 3
    OBVIOUS
  <1> QED
    BY <1>1, <1>2, Zenon

USE CrashAssumption

-----------------------------------------------------------------------------
LEMMA WriterInitInv == WriterInit => WriterInv
  <1> SUFFICES ASSUME WriterInit PROVE WriterInv
    OBVIOUS
  <1>1. WriterTyped
    BY DEF WriterInit, WriterTyped
  <1>2. OneAtATime /\ HeldByActive /\ InBuffer /\ SavedSurvives
    BY DEF WriterInit, OneAtATime, HeldByActive, InBuffer, SavedSurvives, Active
  <1> QED
    BY <1>1, <1>2 DEF WriterInv

(* A step of the save of s leaves the other saves alone. *)
LEMMA Moves ==
  ASSUME WriterTyped, NEW s \in SeqIds, NEW from, NEW to \in Active \cup {"new", "saved", "failed"},
         Move(s, from, to)
  PROVE  /\ saves[s] = from /\ saves'[s] = to
         /\ saves' \in [SeqIds -> Active \cup {"new", "saved", "failed"}]
         /\ \A t \in SeqIds : t # s => saves'[t] = saves[t]
  BY DEF WriterTyped, Move

LEMMA Inside ==
  ASSUME NEW d \in Nat, NEW e \in Nat, NEW l \in Nat, d <= e, d <= l, NEW i \in 1 .. (d - 2)
  PROVE  i \in 1 .. (e - 2) /\ i \in 1 .. l /\ i + 1 \in 1 .. l /\ i + 2 \in 1 .. l
  OBVIOUS

(* Lines that an fsync covers are where they were if the file grows. *)
LEMMA FileGrows ==
  ASSUME WriterTyped, SavedSurvives, NEW t \in Seq(Pieces), file' = file \o t,
         durable' \in Nat, durable <= durable',
         \A s \in SeqIds : saves'[s] = "saved" => saves[s] = "saved"
  PROVE  SavedSurvives'
  <1>1. \A i \in 1 .. Len(file) : file'[i] = file[i]
    BY ConcatProperties DEF WriterTyped
  <1>2. ASSUME NEW s \in SeqIds, saves'[s] = "saved" PROVE \E i \in 1 .. (durable' - 2) : LineAt(s, i)'
    <2>1. PICK i \in 1 .. (durable - 2) : LineAt(s, i)
      BY <1>2 DEF SavedSurvives
    <2>2. i \in 1 .. (durable' - 2) /\ i \in 1 .. Len(file) /\ i + 1 \in 1 .. Len(file) /\ i + 2 \in 1 .. Len(file)
      <3>1. Len(file) \in Nat
        BY LenProperties DEF WriterTyped
      <3>2. durable \in Nat /\ durable <= Len(file)
        BY DEF WriterTyped
      <3> QED
        BY <3>1, <3>2, Inside
    <2>3. LineAt(s, i)'
      BY <1>1, <2>1, <2>2 DEF LineAt, Line
    <2> QED
      BY <2>2, <2>3
  <1> QED
    BY <1>2 DEF SavedSurvives

(* Where nothing is written and nobody is done. *)
LEMMA NothingWritten ==
  ASSUME SavedSurvives, UNCHANGED <<file, durable>>,
         \A s \in SeqIds : saves'[s] = "saved" => saves[s] = "saved"
  PROVE  SavedSurvives'
  BY DEF SavedSurvives, LineAt, Line

-----------------------------------------------------------------------------
LEMMA AcquireInv == ASSUME WriterInv, NEW s \in SeqIds, Acquire(s) PROVE WriterInv'
  <1> USE DEF WriterInv
  <1>1. Move(s, "new", "line") /\ lock = "free" /\ lock' = s /\ UNCHANGED <<buffer, file, durable>>
    BY DEF Acquire
  <1>2. /\ saves[s] = "new" /\ saves'[s] = "line" /\ \A t \in SeqIds : t # s => saves'[t] = saves[t]
        /\ saves' \in [SeqIds -> Active \cup {"new", "saved", "failed"}]
    BY <1>1, Moves DEF Active
  <1>3. \A t \in SeqIds : saves[t] \notin Active
    BY <1>1 DEF OneAtATime
  <1>4. WriterTyped'
    BY <1>1, <1>2 DEF WriterTyped
  <1>5. OneAtATime' /\ HeldByActive'
    BY <1>1, <1>2, <1>3 DEF OneAtATime, HeldByActive, Active
  <1>6. InBuffer'
    BY <1>1, <1>2, <1>3 DEF InBuffer, Active
  <1>7. SavedSurvives'
    BY <1>1, <1>2, NothingWritten
  <1> QED
    BY <1>4, <1>5, <1>6, <1>7

LEMMA WriteLineInv == ASSUME WriterInv, NEW s \in SeqIds, WriteLine(s) PROVE WriterInv'
  <1> USE DEF WriterInv
  <1>1. Move(s, "line", "newline") /\ buffer' = buffer \o Line(s) /\ UNCHANGED <<lock, file, durable>>
    BY DEF WriteLine
  <1>2. /\ saves[s] = "line" /\ saves'[s] = "newline" /\ \A t \in SeqIds : t # s => saves'[t] = saves[t]
        /\ saves' \in [SeqIds -> Active \cup {"new", "saved", "failed"}]
    BY <1>1, Moves DEF Active
  <1>3. lock = s /\ \A t \in SeqIds : t # s => saves[t] \notin Active
    BY <1>2 DEF OneAtATime, Active
  <1>4. Line(s) \in Seq(Pieces)
    BY DEF Line, Pieces
  <1>5. buffer' = Line(s)
    BY <1>1, <1>2, <1>4 DEF InBuffer
  <1>6. WriterTyped'
    BY <1>1, <1>2, <1>4, <1>5 DEF WriterTyped
  <1>7. OneAtATime' /\ HeldByActive'
    BY <1>1, <1>2, <1>3 DEF OneAtATime, HeldByActive, Active
  <1>8. InBuffer'
    BY <1>1, <1>2, <1>3, <1>5 DEF InBuffer, Active, Line
  <1>9. SavedSurvives'
    BY <1>1, <1>2, NothingWritten
  <1> QED
    BY <1>6, <1>7, <1>8, <1>9

LEMMA WriteRaisesInv == ASSUME WriterInv, NEW s \in SeqIds, WriteRaises(s) PROVE WriterInv'
  <1> USE DEF WriterInv
  <1>1. Move(s, "line", "failed") /\ lock' = "free" /\ UNCHANGED <<buffer, file, durable>>
    BY DEF WriteRaises
  <1>2. /\ saves[s] = "line" /\ saves'[s] = "failed" /\ \A t \in SeqIds : t # s => saves'[t] = saves[t]
        /\ saves' \in [SeqIds -> Active \cup {"new", "saved", "failed"}]
    BY <1>1, Moves
  <1>3. lock = s /\ \A t \in SeqIds : t # s => saves[t] \notin Active
    BY <1>2 DEF OneAtATime, Active
  <1>4. buffer' = <<>>
    BY <1>1, <1>2 DEF InBuffer
  <1>5. WriterTyped'
    BY <1>1, <1>2 DEF WriterTyped
  <1>6. OneAtATime' /\ HeldByActive'
    BY <1>1, <1>2, <1>3 DEF OneAtATime, HeldByActive, Active
  <1>7. InBuffer'
    BY <1>1, <1>2, <1>3, <1>4 DEF InBuffer, Active
  <1>8. SavedSurvives'
    BY <1>1, <1>2, NothingWritten
  <1> QED
    BY <1>5, <1>6, <1>7, <1>8

LEMMA WriteNewlineInv == ASSUME WriterInv, NEW s \in SeqIds, WriteNewline(s) PROVE WriterInv'
  <1> USE DEF WriterInv
  <1>1. Move(s, "newline", "flush") /\ buffer' = Append(buffer, NL) /\ UNCHANGED <<lock, file, durable>>
    BY DEF WriteNewline
  <1>2. /\ saves[s] = "newline" /\ saves'[s] = "flush" /\ \A t \in SeqIds : t # s => saves'[t] = saves[t]
        /\ saves' \in [SeqIds -> Active \cup {"new", "saved", "failed"}]
    BY <1>1, Moves DEF Active
  <1>3. lock = s /\ \A t \in SeqIds : t # s => saves[t] \notin Active
    BY <1>2 DEF OneAtATime, Active
  <1>4. buffer' = Append(Line(s), NL)
    BY <1>1, <1>2 DEF InBuffer
  <1>5. buffer' \in Seq(Pieces)
    BY <1>1, AppendProperties DEF WriterTyped, Pieces
  <1>6. WriterTyped'
    BY <1>1, <1>2, <1>5 DEF WriterTyped
  <1>7. OneAtATime' /\ HeldByActive'
    BY <1>1, <1>2, <1>3 DEF OneAtATime, HeldByActive, Active
  <1>8. InBuffer'
    BY <1>1, <1>2, <1>3, <1>4 DEF InBuffer, Active, Line, NL
  <1>9. SavedSurvives'
    BY <1>1, <1>2, NothingWritten
  <1> QED
    BY <1>6, <1>7, <1>8, <1>9

LEMMA FlushInv == ASSUME WriterInv, NEW s \in SeqIds, Flush(s) PROVE WriterInv'
  <1> USE DEF WriterInv
  <1>1. /\ Move(s, "flush", "sync") /\ file' = file \o buffer /\ buffer' = <<>>
        /\ UNCHANGED <<lock, durable>>
    BY DEF Flush
  <1>2. /\ saves[s] = "flush" /\ saves'[s] = "sync" /\ \A t \in SeqIds : t # s => saves'[t] = saves[t]
        /\ saves' \in [SeqIds -> Active \cup {"new", "saved", "failed"}]
    BY <1>1, Moves DEF Active
  <1>3. lock = s /\ \A t \in SeqIds : t # s => saves[t] \notin Active
    BY <1>2 DEF OneAtATime, Active
  <1>4. Len(buffer) = 3 /\ buffer[1] = Line(s)[1] /\ buffer[2] = Line(s)[2] /\ buffer[3] = NL
    <2>1. buffer = Append(Line(s), NL)
      BY <1>2 DEF InBuffer
    <2>2. Line(s) \in Seq(Pieces) /\ NL \in Pieces /\ Len(Line(s)) = 2
      BY DEF Line, Pieces
    <2>3. /\ Len(Append(Line(s), NL)) = 3 /\ Append(Line(s), NL)[3] = NL
          /\ \A i \in 1 .. 2 : Append(Line(s), NL)[i] = Line(s)[i]
      BY <2>2, Appended
    <2> QED
      BY <2>1, <2>3
  <1>5. /\ file' \in Seq(Pieces) /\ Len(file) \in Nat /\ Len(file') = Len(file) + 3
        /\ \A i \in 1 .. 3 : file'[Len(file) + i] = buffer[i]
    <2>1. buffer \in Seq(Pieces) /\ file \in Seq(Pieces)
      BY DEF WriterTyped
    <2>2. /\ file \o buffer \in Seq(Pieces) /\ Len(file \o buffer) = Len(file) + Len(buffer)
          /\ \A i \in 1 .. Len(file) + Len(buffer) :
               (file \o buffer)[i] = IF i <= Len(file) THEN file[i] ELSE buffer[i - Len(file)]
      BY <2>1, ConcatProperties
    <2>3. Len(file) \in Nat
      BY <2>1, LenProperties
    <2> QED
      BY <1>1, <1>4, <2>2, <2>3
  <1>6. LineAt(s, Len(file) - 2)' /\ Len(file') >= 3
    <2>1. /\ file'[Len(file) + 1] = Line(s)[1] /\ file'[Len(file) + 2] = Line(s)[2]
          /\ file'[Len(file) + 3] = NL
      BY <1>4, <1>5
    <2>2. /\ Len(file') - 2 = Len(file) + 1 /\ (Len(file') - 2) + 1 = Len(file) + 2
          /\ (Len(file') - 2) + 2 = Len(file) + 3
      BY <1>5
    <2> QED
      BY <1>5, <2>1, <2>2 DEF LineAt, Line, NL
  <1>7. WriterTyped'
    BY <1>1, <1>2, <1>5 DEF WriterTyped
  <1>8. OneAtATime' /\ HeldByActive'
    BY <1>1, <1>2, <1>3 DEF OneAtATime, HeldByActive, Active
  <1>9. InBuffer'
    BY <1>1, <1>2, <1>3, <1>6 DEF InBuffer, Active
  <1>10. SavedSurvives'
    <2>1. buffer \in Seq(Pieces) /\ durable' \in Nat /\ durable <= durable'
      BY <1>1 DEF WriterTyped
    <2>2. \A t \in SeqIds : saves'[t] = "saved" => saves[t] = "saved"
      BY <1>2
    <2> QED
      BY <1>1, <2>1, <2>2, FileGrows
  <1> QED
    BY <1>7, <1>8, <1>9, <1>10

LEMMA SyncInv == ASSUME WriterInv, NEW s \in SeqIds, SyncAndReturn(s) PROVE WriterInv'
  <1> USE DEF WriterInv
  <1>1. Move(s, "sync", "saved") /\ durable' = Len(file) /\ lock' = "free" /\ UNCHANGED <<buffer, file>>
    BY DEF SyncAndReturn
  <1>2. /\ saves[s] = "sync" /\ saves'[s] = "saved" /\ \A t \in SeqIds : t # s => saves'[t] = saves[t]
        /\ saves' \in [SeqIds -> Active \cup {"new", "saved", "failed"}]
    BY <1>1, Moves
  <1>3. lock = s /\ \A t \in SeqIds : t # s => saves[t] \notin Active
    BY <1>2 DEF OneAtATime, Active
  <1>4. /\ buffer = <<>> /\ Len(file) >= 3 /\ LineAt(s, Len(file) - 2) /\ Len(file) \in Nat
    BY <1>2, LenProperties DEF InBuffer, WriterTyped
  <1>5. WriterTyped'
    BY <1>1, <1>2, <1>4 DEF WriterTyped
  <1>6. OneAtATime' /\ HeldByActive'
    BY <1>1, <1>2, <1>3 DEF OneAtATime, HeldByActive, Active
  <1>7. InBuffer'
    BY <1>1, <1>2, <1>3, <1>4 DEF InBuffer, Active
  <1>8. ASSUME NEW t \in SeqIds, saves'[t] = "saved" PROVE \E i \in 1 .. (durable' - 2) : LineAt(t, i)'
    <2>1. CASE t = s
      <3>1. Len(file) - 2 \in 1 .. (durable' - 2)
        BY <1>1, <1>4
      <3>2. \A i : LineAt(s, i)' <=> LineAt(s, i)
        BY <1>1 DEF LineAt, Line, NL
      <3> QED
        BY <1>4, <2>1, <3>1, <3>2
    <2>2. CASE t # s
      <3>1. PICK i \in 1 .. (durable - 2) : LineAt(t, i)
        BY <1>2, <1>8, <2>2 DEF SavedSurvives
      <3>2. i \in 1 .. (durable' - 2)
        BY <1>1, <1>4 DEF WriterTyped
      <3> QED
        BY <1>1, <3>1, <3>2 DEF LineAt, Line, NL
    <2> QED
      BY <2>1, <2>2
  <1>9. SavedSurvives'
    BY <1>8 DEF SavedSurvives
  <1> QED
    BY <1>5, <1>6, <1>7, <1>9

LEMMA CloseFileInv == ASSUME WriterInv, CloseFile PROVE WriterInv'
  <1> USE DEF WriterInv
  <1>1. /\ lock = "free" /\ file' = file \o buffer /\ buffer' = <<>> /\ durable' = Len(file')
        /\ UNCHANGED <<saves, lock>>
    BY DEF CloseFile
  <1>2. buffer = <<>> /\ \A t \in SeqIds : saves[t] \notin Active
    BY <1>1 DEF InBuffer, OneAtATime
  <1>3. file' = file /\ Len(file) \in Nat
    BY <1>1, <1>2, ConcatEmptySeq, LenProperties DEF WriterTyped
  <1>4. WriterTyped'
    BY <1>1, <1>3 DEF WriterTyped
  <1>5. OneAtATime' /\ HeldByActive' /\ InBuffer'
    BY <1>1, <1>2 DEF OneAtATime, HeldByActive, InBuffer, Active
  <1>6. SavedSurvives'
    BY <1>1, <1>3, FileGrows DEF WriterTyped
  <1> QED
    BY <1>4, <1>5, <1>6

LEMMA CrashInv == ASSUME WriterInv, Crash PROVE WriterInv'
  <1> USE DEF WriterInv
  <1>1. PICK n \in durable .. Len(file) : file' = SubSeq(file, 1, n) /\ durable' = n
    BY DEF Crash
  <1>2. /\ buffer' = <<>> /\ lock' = "free"
        /\ saves' = [s \in SeqIds |-> IF saves[s] = "saved" THEN "saved" ELSE "new"]
    BY DEF Crash
  <1>3. /\ n \in Nat /\ file' \in Seq(Pieces) /\ Len(file') = n
        /\ \A i \in 1 .. n : file'[i] = file[i]
    <2>1. n \in Nat /\ n <= Len(file) /\ Len(file) \in Nat
      BY LenProperties DEF WriterTyped
    <2>2. CASE n = 0
      BY <1>1, <2>1, <2>2 DEF WriterTyped
    <2>3. CASE n # 0
      BY <1>1, <2>1, <2>3, SubSeqProperties DEF WriterTyped
    <2> QED
      BY <2>1, <2>2, <2>3
  <1>4. WriterTyped'
    BY <1>1, <1>2, <1>3 DEF WriterTyped
  <1>5. OneAtATime' /\ HeldByActive' /\ InBuffer'
    BY <1>2 DEF OneAtATime, HeldByActive, InBuffer, Active
  <1>6. ASSUME NEW t \in SeqIds, saves'[t] = "saved" PROVE \E i \in 1 .. (durable' - 2) : LineAt(t, i)'
    <2>1. PICK i \in 1 .. (durable - 2) : LineAt(t, i)
      BY <1>2, <1>6 DEF SavedSurvives
    <2>2. i \in 1 .. (durable' - 2) /\ i \in 1 .. n /\ i + 1 \in 1 .. n /\ i + 2 \in 1 .. n
      BY <1>1, <1>3 DEF WriterTyped
    <2> QED
      BY <1>3, <2>1, <2>2 DEF LineAt, Line, NL
  <1>7. SavedSurvives'
    BY <1>6 DEF SavedSurvives
  <1> QED
    BY <1>4, <1>5, <1>7

(* A sequence whose save returned is in the file after any number of        *)
(* crashes, whatever the other threads were writing when they came.         *)
THEOREM WriterDurability == WriterSpec => []SavedSurvives
  <1>1. WriterInv /\ [WriterNext]_writerVars => WriterInv'
    <2> SUFFICES ASSUME WriterInv, [WriterNext]_writerVars PROVE WriterInv'
      OBVIOUS
    <2>1. CASE WriterNext
      BY <2>1, AcquireInv, WriteLineInv, WriteRaisesInv, WriteNewlineInv, FlushInv, SyncInv,
         CloseFileInv, CrashInv DEF WriterNext
    <2>2. CASE UNCHANGED writerVars
      BY <2>2 DEF writerVars, WriterInv, WriterTyped, OneAtATime, HeldByActive, InBuffer,
                  SavedSurvives, LineAt, Line, NL, Active
    <2> QED
      BY <2>1, <2>2
  <1>2. WriterInv => SavedSurvives
    BY DEF WriterInv
  <1> QED
    BY <1>1, <1>2, WriterInitInv, PTL DEF WriterSpec
=============================================================================
