-------------------------- MODULE IncrementalWriter -------------------------
(***************************************************************************)
(* IncrementalWriter (serving/incremental_writer.py): threads append one   *)
(* line per finished sequence; after a crash the file is opened again and  *)
(* load_completed says which sequences need not be run again.  A line is   *)
(* two pieces and a newline; a piece is <<sequence, part>>.                *)
(***************************************************************************)
EXTENDS Integers, Sequences, FiniteSets, SequencesExt, FiniteSetsExt

CONSTANTS SeqIds, MaxCrashes   \* the sequences saved; bound on the crashes

ASSUME CrashAssumption == MaxCrashes \in Nat /\ "free" \notin SeqIds

VARIABLES
    saves,      \* per sequence: where its save is
    lock,       \* the sequence whose save holds _lock, or "free"
    buffer,     \* what is in the file object's buffer
    file,       \* what the operating system was given
    durable,    \* how much of it an fsync covers
    closed,     \* close was called
    crashes,
    torn        \* a crash cut a line

writerVars == <<saves, lock, buffer, file, durable, closed, crashes, torn>>

NL == <<"newline", 0>>
Line(s) == <<<<s, 1>>, <<s, 2>>>>

WriterInit ==
    /\ saves = [s \in SeqIds |-> "new"] /\ lock = "free" /\ buffer = <<>> /\ file = <<>>
    /\ durable = 0 /\ closed = FALSE /\ crashes = 0 /\ torn = FALSE

Move(s, from, to) == saves[s] = from /\ saves' = [saves EXCEPT ![s] = to]

Acquire(s) ==
    /\ Move(s, "new", "line") /\ lock = "free" /\ lock' = s
    /\ UNCHANGED <<buffer, file, durable, closed, crashes, torn>>

WriteLine(s) ==
    /\ ~closed /\ Move(s, "line", "newline") /\ buffer' = buffer \o Line(s)
    /\ UNCHANGED <<lock, file, durable, closed, crashes, torn>>

(* The file is closed: write raises, and the lock is released. *)
WriteRaises(s) ==
    /\ closed /\ Move(s, "line", "failed") /\ lock' = "free"
    /\ UNCHANGED <<buffer, file, durable, closed, crashes, torn>>

WriteNewline(s) ==
    /\ Move(s, "newline", "flush") /\ buffer' = Append(buffer, NL)
    /\ UNCHANGED <<lock, file, durable, closed, crashes, torn>>

Flush(s) ==
    /\ Move(s, "flush", "sync") /\ file' = file \o buffer /\ buffer' = <<>>
    /\ UNCHANGED <<lock, durable, closed, crashes, torn>>

(* Mutant: flush is taken to be enough. *)
ReturnWithoutSync(s) ==
    /\ Move(s, "sync", "saved") /\ lock' = "free" /\ UNCHANGED <<buffer, file, durable, closed, crashes, torn>>

(* fsync, and save returns. *)
SyncAndReturn(s) ==
    /\ Move(s, "sync", "saved") /\ durable' = Len(file) /\ lock' = "free"
    /\ UNCHANGED <<buffer, file, closed, crashes, torn>>

CloseFile ==
    /\ lock = "free" /\ ~closed /\ closed' = TRUE
    /\ file' = file \o buffer /\ buffer' = <<>> /\ durable' = Len(file')
    /\ UNCHANGED <<saves, lock, crashes, torn>>

(* The machine stops: what is not covered by an fsync survives up to some   *)
(* point, and the next run opens the file for appending.                    *)
Crash ==
    /\ crashes < MaxCrashes /\ crashes' = crashes + 1
    /\ \E n \in durable..Len(file) :
         /\ file' = SubSeq(file, 1, n) /\ durable' = n
         /\ torn' = (torn \/ (n > 0 /\ file[n] # NL))
    /\ buffer' = <<>> /\ lock' = "free" /\ closed' = FALSE
    /\ saves' = [s \in SeqIds |-> IF saves[s] = "saved" THEN "saved" ELSE "new"]

WriterNext ==
    \/ Crash \/ CloseFile
    \/ \E s \in SeqIds :
         Acquire(s) \/ WriteLine(s) \/ WriteRaises(s) \/ WriteNewline(s) \/ Flush(s) \/ SyncAndReturn(s)

-----------------------------------------------------------------------------
(* load_completed: the lines of the file; one that is not a record raises. *)
Ends == {0} \cup {i \in DOMAIN file : file[i] = NL} \cup {Len(file) + 1}
Lines == {SubSeq(file, p[1] + 1, p[2] - 1) :
            p \in {q \in Ends \X Ends : q[1] < q[2] /\ ~\E k \in Ends : q[1] < k /\ k < q[2]}}
Raises == \E l \in Lines : l # <<>> /\ ~\E s \in SeqIds : l = Line(s)
Completed == {s \in SeqIds : Line(s) \in Lines}

(* The whole line of s and its newline begin at i. *)
LineAt(s, i) == file[i] = Line(s)[1] /\ file[i + 1] = Line(s)[2] /\ file[i + 2] = NL

(* A sequence whose save returned is never lost by a crash: its line is in  *)
(* what an fsync covers, even where a cut line stands before it.            *)
SavedSurvives ==
    \A s \in SeqIds : saves[s] = "saved" => \E i \in 1..(durable - 2) : LineAt(s, i)

(* What was saved survives; and as long as no crash cut a line,             *)
(* load_completed reads the file, whatever threads are saving, and finds    *)
(* every such sequence.                                                     *)
SavedIsDurable ==
    /\ SavedSurvives
    /\ ~torn /\ (\A s \in SeqIds : saves[s] \in {"new", "saved", "failed"}) =>
          ~Raises /\ {s \in SeqIds : saves[s] = "saved"} \subseteq Completed
=============================================================================
