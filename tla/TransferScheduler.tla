------------------------- MODULE TransferScheduler -------------------------
(***************************************************************************)
(* UnifiedTransferScheduler (engine/unified_transfer_scheduler.py): a      *)
(* priority queue of expert and KV transfers, one worker thread that takes *)
(* them one at a time and runs each in an executor, and callers that       *)
(* enqueue, wait with a timeout and cancel from other threads.             *)
(*                                                                         *)
(* The j-th enqueue is job j.  A job has a transfer id, which its caller   *)
(* may use again once it knows how the job ended (the KV scheduler's       *)
(* "swap_out_<request>"), and a threading.Event of its own.  Each action   *)
(* is one critical section of the lock, or what a thread does outside it.  *)
(***************************************************************************)
EXTENDS Integers, Sequences, FiniteSets

CONSTANTS
    Ids,         \* transfer ids
    Priorities,  \* TransferPriority values, the smallest is the most urgent
    MaxJobs      \* bound: calls of enqueue

ASSUME PrioritiesAssumption == Priorities \subseteq Nat
ASSUME JobsAssumption == MaxJobs \in Nat

VARIABLES
    jobs,       \* what was enqueued: [id, priority]; Len(jobs) is _seq_counter
    heap,       \* _queue: the jobs the worker has not taken
    pending,    \* _pending: the job whose event an id stands for, 0 if none
    results,    \* _results: the status recorded for an id, "NONE" if none
    marked,     \* _cancelled
    fired,      \* the jobs whose event is set
    running,    \* _running
    executor,   \* the thread pool accepts work
    worker,     \* where the worker thread is
    job,        \* the job it has taken
    ran,        \* history: the jobs whose handler was called
    withdrawn   \* history: the jobs cancelled before the worker's check

tsVars == <<jobs, heap, pending, results, marked, fired, running, executor,
            worker, job, ran, withdrawn>>

Jobs == 1 .. Len(jobs)
Status == {"COMPLETED", "FAILED", "CANCELLED"}

TSInit ==
    /\ jobs = <<>> /\ heap = {}
    /\ pending = [i \in Ids |-> 0]
    /\ results = [i \in Ids |-> "NONE"]
    /\ marked = {} /\ fired = {}
    /\ running = TRUE /\ executor = TRUE
    /\ worker = "take" /\ job = 0
    /\ ran = {} /\ withdrawn = {}

-----------------------------------------------------------------------------

(* enqueue(i, p).  The second conjunct is the callers': an id is not        *)
(* enqueued again while it is pending.                                      *)
Enqueue(i, p) ==
    /\ Len(jobs) < MaxJobs
    /\ pending[i] = 0
    /\ jobs' = Append(jobs, [id |-> i, priority |-> p])
    /\ pending' = [pending EXCEPT ![i] = Len(jobs')]
    /\ heap' = heap \cup {Len(jobs')}
    /\ UNCHANGED <<results, marked, fired, running, executor, worker, job, ran, withdrawn>>

(* cancel(i) of a pending id: its waiter timed out.  The job may be in the  *)
(* queue, taken and not yet checked, or in its handler.                     *)
Cancel(i) ==
    /\ pending[i] # 0
    /\ marked' = marked \cup {i}
    /\ results' = [results EXCEPT ![i] = "CANCELLED"]
    /\ fired' = fired \cup {pending[i]}
    /\ pending' = [pending EXCEPT ![i] = 0]
    /\ withdrawn' = IF pending[i] \in heap \/ (worker = "check" /\ job = pending[i])
                    THEN withdrawn \cup {pending[i]} ELSE withdrawn
    /\ UNCHANGED <<jobs, heap, running, executor, worker, job, ran>>

(* The caller of wait has the event of job j: True once it is set. *)
Signalled(j) == j \in fired

-----------------------------------------------------------------------------
Before(j, k) ==
    \/ jobs[j].priority < jobs[k].priority
    \/ jobs[j].priority = jobs[k].priority /\ j < k

(* The worker pops the heap; wait returns at once while the queue is not    *)
(* empty, and otherwise on a notify or after its timeout.                   *)
Take ==
    /\ worker = "take" /\ running
    /\ \E j \in heap :
          /\ \A k \in heap \ {j} : Before(j, k)
          /\ job' = j
          /\ heap' = heap \ {j}
    /\ worker' = "check"
    /\ UNCHANGED <<jobs, pending, results, marked, fired, running, executor, ran, withdrawn>>

(* _running was cleared. *)
WorkerStops ==
    /\ worker = "take" /\ ~running
    /\ worker' = "stopped"
    /\ UNCHANGED <<jobs, heap, pending, results, marked, fired, running, executor, job, ran, withdrawn>>

(* Mutant: the cancellation mark is not looked at. *)
CheckIgnoresMark ==
    /\ worker = "check"
    /\ worker' = "submit"
    /\ UNCHANGED <<jobs, heap, pending, results, marked, fired, running, executor, job, ran, withdrawn>>

(* A job whose id is marked as cancelled is dropped, and the mark with it. *)
CheckMark ==
    /\ worker = "check"
    /\ \/ /\ jobs[job].id \in marked
          /\ marked' = marked \ {jobs[job].id}
          /\ worker' = "take"
       \/ /\ jobs[job].id \notin marked
          /\ worker' = "submit"
          /\ UNCHANGED marked
    /\ UNCHANGED <<jobs, heap, pending, results, fired, running, executor, job, ran, withdrawn>>

(* executor.submit; it raises once the executor is shut down, and the       *)
(* worker thread ends with the exception.                                   *)
Submit ==
    /\ worker = "submit"
    /\ worker' = IF executor THEN "run" ELSE "stopped"
    /\ UNCHANGED <<jobs, heap, pending, results, marked, fired, running, executor, job, ran, withdrawn>>

(* _run_request calls the handler, which returns or raises. *)
RunHandler ==
    /\ worker = "run"
    /\ worker' \in {"completed", "failed"}
    /\ ran' = ran \cup {job}
    /\ UNCHANGED <<jobs, heap, pending, results, marked, fired, running, executor, job, withdrawn>>

(* Mutant: a failed transfer is not reported. *)
FinishOnlyCompleted ==
    /\ worker \in {"completed", "failed"}
    /\ LET i == jobs[job].id IN
       /\ results' = [results EXCEPT ![i] = IF worker = "failed" THEN "FAILED" ELSE "COMPLETED"]
       /\ IF worker = "failed" THEN UNCHANGED <<fired, pending>>
          ELSE /\ fired' = IF pending[i] = 0 THEN fired ELSE fired \cup {pending[i]}
               /\ pending' = [pending EXCEPT ![i] = 0]
    /\ worker' = "take"
    /\ UNCHANGED <<jobs, heap, marked, running, executor, job, ran, withdrawn>>

(* _run_request records the result under the id, whatever is recorded       *)
(* there, and sets the event that the id stands for now.                    *)
Finish ==
    /\ worker \in {"completed", "failed"}
    /\ LET i == jobs[job].id IN
       /\ results' = [results EXCEPT ![i] = IF worker = "failed" THEN "FAILED" ELSE "COMPLETED"]
       /\ fired' = IF pending[i] = 0 THEN fired ELSE fired \cup {pending[i]}
       /\ pending' = [pending EXCEPT ![i] = 0]
    /\ worker' = "take"
    /\ UNCHANGED <<jobs, heap, marked, running, executor, job, ran, withdrawn>>

(* shutdown clears the flag, gives the worker 5 seconds (or none) ... *)
ShutdownBegins ==
    /\ running
    /\ running' = FALSE
    /\ UNCHANGED <<jobs, heap, pending, results, marked, fired, executor, worker, job, ran, withdrawn>>

(* ... and shuts the executor down. *)
ShutdownEnds ==
    /\ ~running /\ executor
    /\ executor' = FALSE
    /\ UNCHANGED <<jobs, heap, pending, results, marked, fired, running, worker, job, ran, withdrawn>>

WorkerStep == Take \/ WorkerStops \/ CheckMark \/ Submit \/ RunHandler \/ Finish

TSNext ==
    \/ \E i \in Ids : Cancel(i) \/ \E p \in Priorities : Enqueue(i, p)
    \/ WorkerStep
    \/ ShutdownBegins
    \/ ShutdownEnds

-----------------------------------------------------------------------------
(* Type invariant. *)
TSTypeOK ==
    /\ jobs \in Seq([id : Ids, priority : Priorities])
    /\ heap \subseteq Jobs /\ fired \subseteq Jobs
    /\ ran \subseteq Jobs /\ withdrawn \subseteq Jobs
    /\ pending \in [Ids -> Jobs \cup {0}]
    /\ results \in [Ids -> Status \cup {"NONE"}]
    /\ marked \subseteq Ids
    /\ running \in BOOLEAN /\ executor \in BOOLEAN
    /\ worker \in {"take", "check", "submit", "run", "completed", "failed", "stopped"}
    /\ job \in Jobs \cup {0}

(* A caller whose wait returns True finds a result: whichever of cancel and *)
(* _run_request set the event, it recorded a status under the id first; and *)
(* an id without a pending event has one as soon as it was ever used.       *)
SignalledHasResult ==
    /\ \A j \in Jobs : Signalled(j) => results[jobs[j].id] # "NONE"
    /\ \A j \in Jobs : pending[jobs[j].id] = 0 => results[jobs[j].id] # "NONE"

(* No other job has the id of this one.  The mark and the result of a job   *)
(* are kept under its id, so the KV scheduler, which uses "swap_out_<id>"   *)
(* again, is promised none of what follows.                                 *)
Alone(j) == \A k \in Jobs \ {j} : jobs[k].id # jobs[j].id

(* cancel is in time until the worker looks: a job that was cancelled while *)
(* it was queued, or taken and not yet checked, never reaches its handler,  *)
(* so KV blocks are not copied for a caller that has given them up.  And a  *)
(* caller that is told "completed" is told of a handler that ran.           *)
WithdrawnNeverRuns ==
    \A j \in Jobs : Alone(j) =>
        /\ j \in withdrawn => j \notin ran
        /\ Signalled(j) /\ results[jobs[j].id] = "COMPLETED" => j \in ran

(* wait and cancel keep their word: the two properties above. *)
WaitersToldTrue == SignalledHasResult /\ WithdrawnNeverRuns

(* No transfer is forgotten: every job is signalled, because its handler    *)
(* ended or because it was cancelled, unless the scheduler is shut down.    *)
EveryJobSignalled ==
    \A j \in 1 .. MaxJobs : (j \in Jobs) ~> (Signalled(j) \/ ~running \/ (j \in Jobs /\ ~Alone(j)))
=============================================================================
