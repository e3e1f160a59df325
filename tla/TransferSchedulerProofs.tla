---------------------- MODULE TransferSchedulerProofs ----------------------
(***************************************************************************)
(* WaitersToldTrue for every set of ids and priorities and any number of   *)
(* jobs: a signalled caller finds a result, a job that was cancelled in    *)
(* time never runs, and "completed" is said only of a handler that ran.    *)
(***************************************************************************)
EXTENDS TransferScheduler, SequenceTheorems, TLAPS

Holding == {"submit", "run", "completed", "failed"}

(* The event an id stands for is that of a job of this id. *)
PendingIsOwn == \A i \in Ids : pending[i] # 0 => pending[i] \in Jobs /\ jobs[pending[i]].id = i

(* A job is in the queue, then in the worker's hands, then perhaps run; it  *)
(* never comes back.                                                        *)
RunOnce ==
    /\ \A j \in heap : j \notin ran
    /\ worker \in Holding \cup {"check"} => job \in Jobs /\ job \notin heap
    /\ worker \in {"check", "submit", "run"} => job \notin ran
    /\ worker \in {"completed", "failed"} => job \in ran

(* The mark of a withdrawn job whose id is its own waits for it until the   *)
(* worker looks, and the worker lets go of the job.                         *)
MarkWaits ==
    \A j \in Jobs : Alone(j) /\ j \in withdrawn =>
        /\ j \notin ran
        /\ j \in heap \/ (worker = "check" /\ job = j) => jobs[j].id \in marked
        /\ worker \in Holding => job # j

(* A result "completed" under an id that is its own is of its own handler. *)
CompletedRan ==
    \A j \in Jobs : Alone(j) /\ j \in fired /\ results[jobs[j].id] = "COMPLETED" => j \in ran

TSInv == TSTypeOK /\ PendingIsOwn /\ RunOnce /\ SignalledHasResult /\ MarkWaits /\ CompletedRan

TSSpec == TSInit /\ [][TSNext]_tsVars

-----------------------------------------------------------------------------
USE PrioritiesAssumption, JobsAssumption

(* The invariant holds in a new scheduler. *)
LEMMA TSInitInv == TSInit => TSInv
  BY DEF TSInit, TSInv, TSTypeOK, PendingIsOwn, RunOnce, SignalledHasResult, MarkWaits, CompletedRan,
         Jobs, Signalled, Holding

(* A job has an id. *)
LEMMA JobsHaveIds == ASSUME TSTypeOK, NEW j \in Jobs PROVE jobs[j].id \in Ids
  <1>1. jobs \in Seq([id : Ids, priority : Priorities]) /\ j \in 1 .. Len(jobs)
    BY DEF TSTypeOK, Jobs
  <1>2. jobs[j] \in [id : Ids, priority : Priorities]
    BY <1>1, ElementOfSeq
  <1> QED
    BY <1>2

(* enqueue adds the job after all the others and changes none of them. *)
LEMMA EnqueueAppends ==
  ASSUME TSTypeOK, NEW i \in Ids, NEW p \in Priorities, Enqueue(i, p)
  PROVE  /\ Len(jobs) \in Nat /\ Len(jobs') = Len(jobs) + 1
         /\ jobs' \in Seq([id : Ids, priority : Priorities])
         /\ Jobs \subseteq Jobs' /\ Jobs' = Jobs \cup {Len(jobs')} /\ Len(jobs') \notin Jobs /\ Len(jobs') # 0
         /\ \A j \in Jobs : jobs'[j] = jobs[j]
         /\ jobs'[Len(jobs')].id = i
         /\ \A j \in Jobs : Alone(j)' => Alone(j)
  <1>1. /\ jobs \in Seq([id : Ids, priority : Priorities])
        /\ jobs' = Append(jobs, [id |-> i, priority |-> p])
    BY DEF Enqueue, TSTypeOK
  <1>2. /\ Len(jobs) \in Nat /\ Len(jobs') = Len(jobs) + 1
        /\ jobs' \in Seq([id : Ids, priority : Priorities])
        /\ \A j \in 1 .. Len(jobs) : jobs'[j] = jobs[j]
        /\ jobs'[Len(jobs')] = [id |-> i, priority |-> p]
    BY <1>1
  <1>3. Jobs \subseteq Jobs' /\ Jobs' = Jobs \cup {Len(jobs')} /\ Len(jobs') \notin Jobs /\ Len(jobs') # 0
    BY <1>2 DEF Jobs
  <1>4. \A j \in Jobs : Alone(j)' => Alone(j)
    BY <1>2, <1>3 DEF Alone, Jobs
  <1> QED
    BY <1>2, <1>3, <1>4 DEF Jobs

LEMMA EnqueueKeeps == ASSUME TSInv, NEW i \in Ids, NEW p \in Priorities, Enqueue(i, p) PROVE TSInv'
  <1> USE DEF TSInv
  <1> DEFINE new == Len(jobs')
  <1>1. /\ Len(jobs) \in Nat /\ new = Len(jobs) + 1 /\ jobs' \in Seq([id : Ids, priority : Priorities])
        /\ Jobs \subseteq Jobs' /\ Jobs' = Jobs \cup {new} /\ new \notin Jobs /\ new # 0
        /\ \A j \in Jobs : jobs'[j] = jobs[j]
        /\ jobs'[new].id = i
        /\ \A j \in Jobs : Alone(j)' => Alone(j)
    BY EnqueueAppends
  <1>2. /\ pending[i] = 0 /\ pending' = [pending EXCEPT ![i] = new] /\ heap' = heap \cup {new}
        /\ UNCHANGED <<results, marked, fired, running, executor, worker, job, ran, withdrawn>>
    BY DEF Enqueue
  <1> HIDE DEF new
  <1>3. /\ heap \subseteq Jobs /\ fired \subseteq Jobs /\ ran \subseteq Jobs /\ withdrawn \subseteq Jobs
        /\ pending \in [Ids -> Jobs \cup {0}] /\ job \in Jobs \cup {0}
        /\ \A j \in Jobs : jobs[j].id \in Ids
    BY JobsHaveIds DEF TSTypeOK
  <1>4. TSTypeOK'
    BY <1>1, <1>2, <1>3 DEF TSTypeOK
  <1>5. PendingIsOwn'
    BY <1>1, <1>2, <1>3 DEF PendingIsOwn
  <1>6. RunOnce'
    BY <1>1, <1>2, <1>3 DEF RunOnce
  <1>7. SignalledHasResult'
    BY <1>1, <1>2, <1>3 DEF SignalledHasResult, Signalled
  <1>8. MarkWaits'
    BY <1>1, <1>2, <1>3 DEF MarkWaits
  <1>9. CompletedRan'
    BY <1>1, <1>2, <1>3 DEF CompletedRan
  <1> QED
    BY <1>4, <1>5, <1>6, <1>7, <1>8, <1>9

(* The other steps leave the jobs alone. *)
LEMMA SameJobs == ASSUME UNCHANGED jobs PROVE Jobs' = Jobs /\ \A j \in Jobs : Alone(j)' = Alone(j)
  BY DEF Jobs, Alone

LEMMA CancelKeeps == ASSUME TSInv, NEW i \in Ids, Cancel(i) PROVE TSInv'
  <1> USE DEF TSInv
  <1>1. UNCHANGED jobs /\ Jobs' = Jobs /\ \A j \in Jobs : Alone(j)' = Alone(j)
    BY SameJobs DEF Cancel
  <1> DEFINE c == pending[i]
  <1>2. /\ c \in Jobs /\ jobs[c].id = i /\ c # 0
        /\ marked' = marked \cup {i} /\ results' = [results EXCEPT ![i] = "CANCELLED"]
        /\ fired' = fired \cup {c} /\ pending' = [pending EXCEPT ![i] = 0]
        /\ withdrawn' = IF c \in heap \/ (worker = "check" /\ job = c) THEN withdrawn \cup {c} ELSE withdrawn
        /\ UNCHANGED <<heap, running, executor, worker, job, ran>>
    BY DEF Cancel, PendingIsOwn
  <1> HIDE DEF c
  <1>3. /\ heap \subseteq Jobs /\ fired \subseteq Jobs /\ ran \subseteq Jobs /\ withdrawn \subseteq Jobs
        /\ pending \in [Ids -> Jobs \cup {0}] /\ results \in [Ids -> Status \cup {"NONE"}]
        /\ \A j \in Jobs : jobs[j].id \in Ids
    BY JobsHaveIds DEF TSTypeOK
  <1>4. TSTypeOK'
    BY <1>1, <1>2, <1>3 DEF TSTypeOK, Status
  <1>5. PendingIsOwn' /\ RunOnce'
    BY <1>1, <1>2, <1>3 DEF PendingIsOwn, RunOnce
  <1>6. SignalledHasResult'
    BY <1>1, <1>2, <1>3 DEF SignalledHasResult, Signalled
  <1>7. MarkWaits'
    <2> SUFFICES ASSUME NEW j \in Jobs, Alone(j), j \in withdrawn'
                 PROVE  /\ j \notin ran
                        /\ j \in heap \/ (worker = "check" /\ job = j) => jobs[j].id \in marked'
                        /\ worker \in Holding => job # j
      BY <1>1, <1>2 DEF MarkWaits
    <2>1. CASE j \in withdrawn
      BY <1>2, <2>1 DEF MarkWaits
    <2>2. CASE j = c /\ (c \in heap \/ (worker = "check" /\ job = c))
      BY <1>2, <2>2 DEF RunOnce, Holding
    <2> QED
      BY <1>2, <2>1, <2>2
  <1>8. CompletedRan'
    BY <1>1, <1>2, <1>3 DEF CompletedRan
  <1> QED
    BY <1>4, <1>5, <1>6, <1>7, <1>8

LEMMA TakeKeeps == TSInv /\ Take => TSInv'
  <1> SUFFICES ASSUME TSInv, Take PROVE TSInv'
    OBVIOUS
  <1> USE DEF TSInv
  <1>1. UNCHANGED jobs /\ Jobs' = Jobs /\ \A j \in Jobs : Alone(j)' = Alone(j)
    BY SameJobs DEF Take
  <1>2. TSTypeOK'
    BY <1>1 DEF TSTypeOK, Take
  <1>3. PendingIsOwn' /\ SignalledHasResult' /\ CompletedRan'
    BY <1>1 DEF PendingIsOwn, SignalledHasResult, CompletedRan, Signalled, Take
  <1>4. RunOnce'
    BY <1>1 DEF RunOnce, Take, TSTypeOK, Holding
  <1>5. MarkWaits'
    BY <1>1 DEF MarkWaits, Take, Holding
  <1> QED
    BY <1>2, <1>3, <1>4, <1>5

LEMMA CheckMarkKeeps == TSInv /\ CheckMark => TSInv'
  <1> SUFFICES ASSUME TSInv, CheckMark PROVE TSInv'
    OBVIOUS
  <1> USE DEF TSInv
  <1>1. UNCHANGED jobs /\ Jobs' = Jobs /\ \A j \in Jobs : Alone(j)' = Alone(j)
    BY SameJobs DEF CheckMark
  <1>2. TSTypeOK'
    BY <1>1 DEF TSTypeOK, CheckMark
  <1>3. PendingIsOwn' /\ SignalledHasResult' /\ CompletedRan' /\ RunOnce'
    BY <1>1 DEF PendingIsOwn, SignalledHasResult, CompletedRan, Signalled, CheckMark, RunOnce, Holding
  <1>4. MarkWaits'
    BY <1>1 DEF MarkWaits, CheckMark, Holding, RunOnce, Alone
  <1> QED
    BY <1>2, <1>3, <1>4

LEMMA RunHandlerKeeps == TSInv /\ RunHandler => TSInv'
  <1> SUFFICES ASSUME TSInv, RunHandler PROVE TSInv'
    OBVIOUS
  <1> USE DEF TSInv
  <1>1. UNCHANGED jobs /\ Jobs' = Jobs /\ \A j \in Jobs : Alone(j)' = Alone(j)
    BY SameJobs DEF RunHandler
  <1>2. TSTypeOK'
    BY <1>1 DEF TSTypeOK, RunHandler, RunOnce, Holding
  <1>3. PendingIsOwn' /\ SignalledHasResult' /\ CompletedRan' /\ RunOnce'
    BY <1>1 DEF PendingIsOwn, SignalledHasResult, CompletedRan, Signalled, RunHandler, RunOnce, Holding
  <1>4. MarkWaits'
    BY <1>1 DEF MarkWaits, RunHandler, Holding
  <1> QED
    BY <1>2, <1>3, <1>4

LEMMA FinishKeeps == TSInv /\ Finish => TSInv'
  <1> SUFFICES ASSUME TSInv, Finish PROVE TSInv'
    OBVIOUS
  <1> USE DEF TSInv
  <1>1. UNCHANGED jobs /\ Jobs' = Jobs /\ \A j \in Jobs : Alone(j)' = Alone(j)
    BY SameJobs DEF Finish
  <1> DEFINE i == jobs[job].id
             s == IF worker = "failed" THEN "FAILED" ELSE "COMPLETED"
  <1>2. /\ worker \in {"completed", "failed"} /\ job \in Jobs /\ job \in ran /\ i \in Ids
    BY JobsHaveIds DEF Finish, RunOnce, Holding
  <1>3. /\ s \in Status /\ s # "NONE" /\ results' = [results EXCEPT ![i] = s]
        /\ fired' = IF pending[i] = 0 THEN fired ELSE fired \cup {pending[i]}
        /\ pending' = [pending EXCEPT ![i] = 0] /\ worker' = "take"
        /\ UNCHANGED <<heap, marked, running, executor, job, ran, withdrawn>>
    BY DEF Finish, Status
  <1> HIDE DEF s
  <1>4. /\ heap \subseteq Jobs /\ fired \subseteq Jobs /\ ran \subseteq Jobs /\ withdrawn \subseteq Jobs
        /\ pending \in [Ids -> Jobs \cup {0}] /\ results \in [Ids -> Status \cup {"NONE"}]
        /\ \A j \in Jobs : jobs[j].id \in Ids
    BY JobsHaveIds DEF TSTypeOK
  <1>5. TSTypeOK'
    BY <1>1, <1>2, <1>3, <1>4 DEF TSTypeOK
  <1>6. PendingIsOwn' /\ RunOnce' /\ MarkWaits'
    BY <1>1, <1>2, <1>3, <1>4 DEF PendingIsOwn, RunOnce, MarkWaits, Holding
  <1>7. SignalledHasResult'
    BY <1>1, <1>2, <1>3, <1>4 DEF SignalledHasResult, Signalled, PendingIsOwn
  <1>8. CompletedRan'
    BY <1>1, <1>2, <1>3, <1>4 DEF CompletedRan, Alone, PendingIsOwn
  <1> QED
    BY <1>5, <1>6, <1>7, <1>8

(* The steps that only move the worker or the shutdown on. *)
LEMMA OthersKeep ==
  TSInv /\ (WorkerStops \/ Submit \/ ShutdownBegins \/ ShutdownEnds \/ UNCHANGED tsVars) => TSInv'
  <1> SUFFICES ASSUME TSInv, WorkerStops \/ Submit \/ ShutdownBegins \/ ShutdownEnds \/ UNCHANGED tsVars
               PROVE  TSInv'
    OBVIOUS
  <1> USE DEF TSInv
  <1>1. /\ UNCHANGED <<jobs, heap, pending, results, marked, fired, job, ran, withdrawn>>
        /\ \/ worker' = worker \/ worker' = "stopped"
           \/ worker = "submit" /\ worker' = "run"
        /\ running' \in {running, FALSE} /\ executor' \in {executor, FALSE}
    BY DEF WorkerStops, Submit, ShutdownBegins, ShutdownEnds, tsVars
  <1>2. Jobs' = Jobs /\ \A j \in Jobs : Alone(j)' = Alone(j)
    BY <1>1, SameJobs
  <1>3. TSTypeOK' /\ PendingIsOwn' /\ SignalledHasResult'
    BY <1>1, <1>2 DEF TSTypeOK, PendingIsOwn, SignalledHasResult, Signalled
  <1>4. RunOnce'
    BY <1>1, <1>2 DEF RunOnce, Holding
  <1>5. MarkWaits' /\ CompletedRan'
    BY <1>1, <1>2 DEF MarkWaits, CompletedRan, Holding
  <1> QED
    BY <1>3, <1>4, <1>5

(* wait and cancel keep their word, whatever the number of callers, jobs    *)
(* and ids, and whichever of the callers, the worker and shutdown comes     *)
(* first (unified_transfer_scheduler.py).                                   *)
THEOREM TransferSoundness == TSSpec => []WaitersToldTrue
  <1>1. TSInv /\ [TSNext]_tsVars => TSInv'
    BY EnqueueKeeps, CancelKeeps, TakeKeeps, CheckMarkKeeps, RunHandlerKeeps, FinishKeeps, OthersKeep
       DEF TSNext, WorkerStep
  <1>2. TSInv => WaitersToldTrue
    BY DEF TSInv, WaitersToldTrue, WithdrawnNeverRuns, MarkWaits, CompletedRan, Signalled
  <1> QED
    BY TSInitInv, <1>1, <1>2, PTL DEF TSSpec
=============================================================================
