----------------------------- MODULE Scheduler -----------------------------
(***************************************************************************)
(* The continuous-batching scheduler (moe_infinity/serving/scheduler.py)   *)
(* over the paged KV cache: three queues of sequence groups, the status    *)
(* machine of serving/sequence.py, and the locals of a schedule() and      *)
(* update_after_step() in progress.                                        *)
(*                                                                         *)
(* A call is a run of small steps: pc says where the code is, todo holds   *)
(* the sequences the innermost loop has left, cur the group it is about.   *)
(* Nothing else runs between the small steps of one call: add_request and  *)
(* abort_request are enabled only when pc says that no call is running     *)
(* (the engine is called from one event loop and none of this awaits).     *)
(*                                                                         *)
(* Three branches of the code are left out because a group is always in    *)
(* the queue that its sequences' statuses call for (QueuesMatchStatuses of *)
(* ServingEngine): a waiting group with no WAITING sequence, a running one *)
(* with nothing to preempt, a swapped one with no SWAPPED sequence.        *)
(***************************************************************************)
EXTENDS PagedKVCache

CONSTANTS
    Requests,       \* request ids, numbered in the order in which they arrive
    SeqsOf,         \* the sequence ids a request would get, in order
    Settings,       \* how the server may be set up and used, see setting
    MaxBatch,       \* max_batch_size
    MaxStepTokens   \* max_tokens_per_step

ASSUME SettingAssumption ==
    /\ Requests \subseteq Nat
    /\ \A st \in Settings :
          /\ st.shapes \subseteq [n : Nat \ {0}, prompt : Nat, maxNew : Nat] /\ st.arrivals \in Nat
          /\ {st.useCP, st.paged, st.forwardMayFail, st.callbackMayRaise} \subseteq BOOLEAN
ASSUME SeqsOfAssumption ==
    /\ SeqsOf \in [Requests -> Seq(Seqs)]
    /\ \A r, q \in Requests : \A i \in 1 .. Len(SeqsOf[r]), j \in 1 .. Len(SeqsOf[q]) :
          SeqsOf[r][i] = SeqsOf[q][j] => r = q /\ i = j
ASSUME LimitAssumption ==
    MaxBatch \in Nat \ {0} /\ MaxStepTokens \in Nat \ {0}

VARIABLES
    setting,     \* [shapes, arrivals, useCP, paged, forwardMayFail, callbackMayRaise]:
                 \* what requests ask for, as [n, prompt, maxNew]; how many arrive; a
                 \* CPAwareKVManager is set; the model has paged attention classes; its
                 \* forward pass, an on_token callback may raise.  It never changes.
    shape,       \* [n, prompt, maxNew] of each request that was added
    waiting,     \* Scheduler._waiting
    running,     \* Scheduler._running
    swappedQ,    \* Scheduler._swapped
    inSched,     \* the keys of Scheduler._request_map
    status,      \* SequenceData.status, "NEW" before the sequence exists
    outLen,      \* len(SequenceData.output_token_ids)
    pc,          \* where the running call is
    snapshot,    \* schedule: swapped groups still to be tried
    cur,         \* the group the inner loop is about
    todo,        \* the sequences the inner loop still has to handle
    prefillIds,  \* SchedulerOutput.prefill_seq_ids
    decodeIds,   \* SchedulerOutput.decode_seq_ids
    schedTokens  \* scheduled_tokens

queueVars == <<waiting, running, swappedQ, inSched>>
localVars == <<snapshot, cur, todo, prefillIds, decodeIds, schedTokens>>
schedVars == <<shape, queueVars, status, outLen, pc, localVars>>

Active == {"WAITING", "PREFILL", "DECODE", "SWAPPED"}
Terminal == {"FINISHED", "CANCELLED"}

(* SequenceData._validate_transition: set_status raises on any other change. *)
AllowedTransitions ==
    [WAITING   |-> {"PREFILL", "SWAPPED", "CANCELLED"},
     PREFILL   |-> {"DECODE", "FINISHED", "SWAPPED", "CANCELLED"},
     DECODE    |-> {"FINISHED", "SWAPPED", "CANCELLED"},
     SWAPPED   |-> {"WAITING", "PREFILL", "DECODE", "FINISHED", "CANCELLED"},
     FINISHED  |-> {},
     CANCELLED |-> {}]

GroupSeqs(r) == SubSeq(SeqsOf[r], 1, shape[r].n)
Members(r) == {SeqsOf[r][i] : i \in 1 .. shape[r].n}
Added == {r \in Requests : shape[r] # None}
RequestOf(s) == CHOOSE r \in Requests : \E i \in DOMAIN SeqsOf[r] : SeqsOf[r][i] = s
PromptLength(s) == shape[RequestOf(s)].prompt
WithStatus(r, S) == SelectSeq(GroupSeqs(r), LAMBDA s : status[s] \in S)
Without(queue, S) == SelectSeq(queue, LAMBDA r : r \notin S)
InQueue(queue) == {queue[i] : i \in DOMAIN queue}

(* num_computed_tokens: 0 until the first output token, then all of them. *)
NumComputed(s) == IF outLen[s] = 0 THEN 0 ELSE PromptLength(s) + outLen[s]

(* The sequences of a group share its prompt. *)
RequiredBlocks(r) == Len(WithStatus(r, {"WAITING"})) * CeilDiv(shape[r].prompt, BlockSize)
PrefillTokens(r) == Len(WithStatus(r, {"WAITING"})) * shape[r].prompt

(* The sequences of the running groups, in queue order. *)
RunningSeqs ==
    LET upTo[k \in 0 .. Len(running)] ==
            IF k = 0 THEN <<>> ELSE upTo[k - 1] \o GroupSeqs(running[k])
    IN  upTo[Len(running)]

Reorderings(queue) ==
    LET D == DOMAIN queue
        Perms == {p \in [D -> D] : \A i, j \in D : p[i] = p[j] => i = j}
    IN  {[i \in D |-> queue[p[i]]] : p \in Perms}

SchedInit ==
    /\ setting \in Settings
    /\ shape = [r \in Requests |-> None]
    /\ waiting = <<>> /\ running = <<>> /\ swappedQ = <<>>
    /\ inSched = {}
    /\ status = [s \in Seqs |-> "NEW"]
    /\ outLen = [s \in Seqs |-> 0]
    /\ pc = "idle"
    /\ snapshot = <<>> /\ cur = None /\ todo = <<>>
    /\ prefillIds = <<>> /\ decodeIds = <<>> /\ schedTokens = 0

-----------------------------------------------------------------------------
(* Scheduler.add_request, with the SequenceData that the engine creates. *)
SchedAddRequest(r, sh) ==
    /\ shape' = [shape EXCEPT ![r] = sh]
    /\ status' = [s \in Seqs |->
                    IF \E i \in 1 .. sh.n : SeqsOf[r][i] = s THEN "WAITING" ELSE status[s]]
    /\ waiting' = Append(waiting, r)
    /\ inSched' = inSched \cup {r}
    /\ UNCHANGED <<running, swappedQ, outLen, pc, localVars>>

(* schedule() starts; _recover_swapped_groups returns at once when no block *)
(* is free.                                                                 *)
ScheduleBegin ==
    /\ pc = "idle"
    /\ snapshot' = IF free = {} THEN <<>> ELSE swappedQ
    /\ prefillIds' = <<>> /\ decodeIds' = <<>> /\ schedTokens' = 0
    /\ pc' = "recover"
    /\ UNCHANGED <<shape, queueVars, status, outLen, cur, todo, kvVars>>

(* _recover_swapped_groups: the next group of the snapshot. *)
RecoverGroup ==
    /\ pc = "recover" /\ snapshot # <<>>
    /\ cur' = Head(snapshot)
    /\ snapshot' = Tail(snapshot)
    /\ todo' = WithStatus(cur', {"SWAPPED"})
    /\ pc' = "swapin"
    /\ UNCHANGED <<shape, queueVars, status, outLen, prefillIds, decodeIds, schedTokens, kvVars>>

(* swap_in of one sequence; one that an earlier attempt on this group has   *)
(* brought back already is left alone.                                      *)
RecoverSequence ==
    /\ pc = "swapin" /\ todo # <<>>
    /\ \/ SwapIn(Head(todo))
       \/ Head(todo) \notin swapped /\ UNCHANGED kvVars
    /\ todo' = Tail(todo)
    /\ UNCHANGED <<shape, queueVars, status, outLen, pc, snapshot, cur,
                   prefillIds, decodeIds, schedTokens>>

(* swap_in raises: the group stays in _swapped, its remaining sequences are *)
(* not tried, and those before this one keep the blocks they got.           *)
RecoverSequenceFails ==
    /\ pc = "swapin" /\ todo # <<>>
    /\ SwapInFails(Head(todo))
    /\ todo' = <<>>
    /\ pc' = "recover"
    /\ UNCHANGED <<shape, queueVars, status, outLen, snapshot, cur,
                   prefillIds, decodeIds, schedTokens>>

(* Mutant: the recovered group is not removed from _swapped. *)
RecoverDoneKeepsEntry ==
    /\ pc = "swapin" /\ todo = <<>>
    /\ status' = [s \in Seqs |->
                    IF s \in Members(cur) /\ status[s] = "SWAPPED" THEN "DECODE" ELSE status[s]]
    /\ running' = <<cur>> \o running
    /\ pc' = "recover"
    /\ UNCHANGED <<shape, waiting, swappedQ, inSched, outLen, localVars, kvVars>>

(* Every swapped sequence of the group is back: it runs again, first. *)
RecoverDone ==
    /\ pc = "swapin" /\ todo = <<>>
    /\ status' = [s \in Seqs |->
                    IF s \in Members(cur) /\ status[s] = "SWAPPED" THEN "DECODE" ELSE status[s]]
    /\ swappedQ' = Without(swappedQ, {cur})
    /\ running' = <<cur>> \o running
    /\ pc' = "recover"
    /\ UNCHANGED <<shape, waiting, inSched, outLen, localVars, kvVars>>

(* The waiting queue is sorted by the predicted prefix reuse when a CP      *)
(* manager is set; its scores are not the scheduler's to choose.            *)
SortWaiting ==
    /\ pc = "recover" /\ snapshot = <<>>
    /\ waiting' \in IF setting.useCP THEN Reorderings(waiting) ELSE {waiting}
    /\ pc' = "admit"
    /\ UNCHANGED <<shape, running, swappedQ, inSched, status, outLen, localVars, kvVars>>

-----------------------------------------------------------------------------
OverLimits(r) ==
    \/ Len(prefillIds) + Len(WithStatus(r, {"WAITING"})) > MaxBatch
    \/ schedTokens + PrefillTokens(r) > MaxStepTokens

(* The admission loop ends: nothing waits, or the head breaks a limit. *)
AdmitEnds ==
    /\ pc = "admit"
    /\ waiting # <<>> => OverLimits(Head(waiting))
    /\ pc' = "select"
    /\ UNCHANGED <<shape, queueVars, status, outLen, localVars, kvVars>>

(* The head of the waiting queue fits. *)
AdmitGroup ==
    /\ pc = "admit" /\ waiting # <<>>
    /\ ~OverLimits(Head(waiting))
    /\ RequiredBlocks(Head(waiting)) <= Cardinality(free)
    /\ cur' = Head(waiting)
    /\ waiting' = Tail(waiting)
    /\ running' = Append(running, cur')
    /\ todo' = WithStatus(cur', {"WAITING"})
    /\ schedTokens' = schedTokens + PrefillTokens(cur')
    /\ pc' = "alloc"
    /\ UNCHANGED <<shape, swappedQ, inSched, status, outLen, snapshot, prefillIds, decodeIds, kvVars>>

(* Its blocks, one sequence at a time. *)
AllocateAdmitted ==
    /\ pc = "alloc" /\ todo # <<>>
    /\ AllocateSequence(Head(todo), shape[cur].prompt)
    /\ status' = [status EXCEPT ![Head(todo)] = "PREFILL"]
    /\ prefillIds' = Append(prefillIds, Head(todo))
    /\ todo' = Tail(todo)
    /\ UNCHANGED <<shape, queueVars, outLen, pc, snapshot, cur, decodeIds, schedTokens>>

AllocateDone ==
    /\ pc = "alloc" /\ todo = <<>>
    /\ pc' = "admit"
    /\ UNCHANGED <<shape, queueVars, status, outLen, localVars, kvVars>>

(* Too few free blocks for the head: _preempt_oldest_running_group takes    *)
(* the group at the front of the running queue, whatever admitted it.       *)
PreemptBegins ==
    /\ pc = "admit" /\ waiting # <<>>
    /\ ~OverLimits(Head(waiting))
    /\ RequiredBlocks(Head(waiting)) > Cardinality(free)
    /\ running # <<>>
    /\ cur' = Head(running)
    /\ running' = Tail(running)
    /\ todo' = WithStatus(cur', {"PREFILL", "DECODE"})
    /\ pc' = "swapout"
    /\ UNCHANGED <<shape, waiting, swappedQ, inSched, status, outLen, snapshot,
                   prefillIds, decodeIds, schedTokens, kvVars>>

(* No group to preempt: the waiting queue is blocked for this step. *)
PreemptNobody ==
    /\ pc = "admit" /\ waiting # <<>>
    /\ ~OverLimits(Head(waiting))
    /\ RequiredBlocks(Head(waiting)) > Cardinality(free)
    /\ running = <<>>
    /\ pc' = "select"
    /\ UNCHANGED <<shape, queueVars, status, outLen, localVars, kvVars>>

(* Mutant: the victim's blocks are released without a copy. *)
PreemptWithoutSwapOut ==
    /\ pc = "swapout" /\ todo # <<>>
    /\ pc' = "release"
    /\ UNCHANGED <<shape, queueVars, status, outLen, localVars, kvVars>>

(* _preempt_oldest_running_group: the KV of a victim goes to the CPU... *)
PreemptSwapOut ==
    /\ pc = "swapout" /\ todo # <<>>
    /\ SwapOut(Head(todo))
    /\ pc' = "release"
    /\ UNCHANGED <<shape, queueVars, status, outLen, localVars>>

(* ... and its GPU blocks back to the allocator. *)
PreemptRelease ==
    /\ pc = "release"
    /\ FreeGpuBlocks(Head(todo))
    /\ status' = [status EXCEPT ![Head(todo)] = "SWAPPED"]
    /\ todo' = Tail(todo)
    /\ pc' = "swapout"
    /\ UNCHANGED <<shape, queueVars, outLen, snapshot, cur, prefillIds, decodeIds, schedTokens>>

(* The group joins _swapped.  One group is preempted for a waiting one: if  *)
(* that is not enough the waiting queue is blocked for this step.           *)
PreemptDone ==
    /\ pc = "swapout" /\ todo = <<>>
    /\ swappedQ' = Append(swappedQ, cur)
    /\ pc' = IF RequiredBlocks(Head(waiting)) <= Cardinality(free) THEN "admit" ELSE "select"
    /\ UNCHANGED <<shape, waiting, running, inSched, status, outLen, localVars, kvVars>>

(* Mutant: the prefills of this step do not count against max_batch_size. *)
SelectDecodeIgnoresPrefills ==
    /\ pc = "select"
    /\ LET ready == SelectSeq(RunningSeqs, LAMBDA s : status[s] = "DECODE")
           room  == MaxStepTokens - schedTokens
           k     == CHOOSE m \in {MaxBatch, room, Len(ready)} :
                       \A x \in {MaxBatch, room, Len(ready)} : m <= x
       IN  decodeIds' = SubSeq(ready, 1, k)
    /\ pc' = IF prefillIds = <<>> /\ decodeIds' = <<>> THEN "idle" ELSE "forward"
    /\ UNCHANGED <<shape, queueVars, status, outLen, snapshot, cur, todo,
                   prefillIds, schedTokens, kvVars>>

(* The decoding sequences of the running groups, in order, up to the limits. *)
SelectDecode ==
    /\ pc = "select"
    /\ LET ready == SelectSeq(RunningSeqs, LAMBDA s : status[s] = "DECODE")
           seats == MaxBatch - Len(prefillIds)
           room  == MaxStepTokens - schedTokens
           k     == CHOOSE m \in {seats, room, Len(ready)} :
                       \A x \in {seats, room, Len(ready)} : m <= x
       IN  decodeIds' = SubSeq(ready, 1, k)
    /\ pc' = IF prefillIds = <<>> /\ decodeIds' = <<>> THEN "idle" ELSE "forward"
    /\ UNCHANGED <<shape, queueVars, status, outLen, snapshot, cur, todo,
                   prefillIds, schedTokens, kvVars>>

-----------------------------------------------------------------------------
(* update_after_step, first loop: todo holds new_decode_seq_ids.  A sequence *)
(* that was preempted after it was put in the batch is SWAPPED: skipped.     *)
UpdateAppend ==
    /\ pc = "append" /\ todo # <<>>
    /\ \/ /\ status[Head(todo)] \in {"PREFILL", "DECODE"}
          /\ status' = [status EXCEPT ![Head(todo)] = "DECODE"]
          /\ AppendToken(Head(todo))
       \/ /\ status[Head(todo)] = "SWAPPED"
          /\ UNCHANGED <<status, kvVars>>
    /\ todo' = Tail(todo)
    /\ UNCHANGED <<shape, queueVars, outLen, pc, snapshot, cur, prefillIds, decodeIds, schedTokens>>

(* append_tokens finds no free block: RuntimeError, which only a KeyError   *)
(* handler surrounds, leaves update_after_step and step.                    *)
UpdateAppendFails ==
    /\ pc = "append" /\ todo # <<>>
    /\ status[Head(todo)] \in {"PREFILL", "DECODE"}
    /\ AppendTokenFails(Head(todo))
    /\ status' = [status EXCEPT ![Head(todo)] = "DECODE"]
    /\ todo' = <<>>
    /\ pc' = "dead"
    /\ UNCHANGED <<shape, queueVars, outLen, snapshot, cur, prefillIds, decodeIds, schedTokens>>

(* _prune_finished_and_cancelled_requests, given the new statuses. *)
Prune(newStatus) ==
    LET gone == {r \in inSched : \A s \in Members(r) : newStatus[s] \in Terminal}
    IN  /\ inSched' = inSched \ gone
        /\ waiting' = Without(waiting, gone)
        /\ running' = Without(running, gone)
        /\ swappedQ' = Without(swappedQ, gone)

(* update_after_step, second loop and pruning. *)
UpdateComplete(completed) ==
    /\ pc = "append" /\ todo = <<>>
    /\ status' = [s \in Seqs |->
                    IF s \in completed /\ status[s] \in Active THEN "FINISHED" ELSE status[s]]
    /\ FreeSequences(completed)
    /\ Prune(status')
    /\ pc' = "deliver"
    /\ UNCHANGED <<shape, outLen, localVars>>

(* Mutant: an aborted request keeps its blocks. *)
SchedAbortKeepsBlocks(r) ==
    /\ r \in inSched
    /\ status' = [s \in Seqs |->
                    IF s \in Members(r) /\ status[s] \in Active THEN "CANCELLED" ELSE status[s]]
    /\ Prune(status')
    /\ UNCHANGED <<shape, outLen, pc, localVars, kvVars>>

(* Mutant: sequences that finished already are cancelled too. *)
SchedAbortCancelsAll(r) ==
    /\ r \in inSched
    /\ status' = [s \in Seqs |-> IF s \in Members(r) THEN "CANCELLED" ELSE status[s]]
    /\ FreeSequences(Members(r))
    /\ Prune(status')
    /\ UNCHANGED <<shape, outLen, pc, localVars>>

(* Scheduler.abort_request for a request it still has.  All its sequences   *)
(* are terminal afterwards, so pruning takes it out of the queues.          *)
SchedAbort(r) ==
    /\ r \in inSched
    /\ status' = [s \in Seqs |->
                    IF s \in Members(r) /\ status[s] \in Active THEN "CANCELLED" ELSE status[s]]
    /\ FreeSequences(Members(r))
    /\ Prune(status')
    /\ UNCHANGED <<shape, outLen, pc, localVars>>
=============================================================================
