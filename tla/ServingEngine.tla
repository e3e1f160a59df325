--------------------------- MODULE ServingEngine ---------------------------
(***************************************************************************)
(* ContinuousBatchingEngine (moe_infinity/serving/engine.py) over the      *)
(* scheduler and the paged KV cache, driven by the server's _engine_loop   *)
(* and by the clients that add and abort requests.                         *)
(*                                                                         *)
(* step() is schedule(), a forward pass, update_after_step() and the       *)
(* delivery of the outputs to the request's callback.  An exception that   *)
(* leaves step() ends the _engine_loop task, which nothing restarts:       *)
(* pc = "dead".  Clients can still add and abort then.                     *)
(***************************************************************************)
EXTENDS Scheduler

VARIABLES
    reqs,       \* the keys of _request_to_seq_ids
    callbacks,  \* the keys of _callbacks
    completed,  \* _completed_request_ids
    cancelled,  \* _cancelled_request_ids
    done,       \* step: completed_seq_ids
    delivered,  \* outputs of each sequence handed to the callback
    closed,     \* sequences whose finished = True output was handed over
    told        \* requests reported to the eviction sync adapter

engineVars == <<reqs, callbacks, completed, cancelled, done, delivered, closed, told>>
vars == <<setting, kvVars, schedVars, engineVars>>

Batch == prefillIds \o decodeIds
BatchSet == {Batch[i] : i \in DOMAIN Batch}
Pending(r) == r \in reqs /\ \E s \in Members(r) : status[s] \in Active

(* Mutant: the test of Scheduler.has_work, which does not look at _swapped. *)
HasWork == waiting # <<>> \/ running # <<>>

(* has_pending_requests *)
HasPendingRequests == \E r \in reqs : Pending(r)

EngineInit ==
    /\ KVInit /\ SchedInit
    /\ reqs = {} /\ callbacks = {} /\ completed = {} /\ cancelled = {}
    /\ done = {} /\ closed = {} /\ told = {}
    /\ delivered = [s \in Seqs |-> 0]

-----------------------------------------------------------------------------
(* add_request.  A request id is used once: the server draws random UUIDs,  *)
(* and the model numbers them as they come.                                 *)
AddRequest(r, sh) ==
    /\ pc \in {"idle", "dead"}
    /\ shape[r] = None /\ r <= setting.arrivals
    /\ \A q \in Requests : q < r => q \in Added
    /\ sh.n <= Len(SeqsOf[r])
    /\ SchedAddRequest(r, sh)
    /\ reqs' = reqs \cup {r}
    /\ callbacks' = callbacks \cup {r}
    /\ UNCHANGED <<completed, cancelled, done, delivered, closed, told, kvVars>>

(* abort_request of a pending request: the client disconnected. *)
AbortRequest(r) ==
    /\ pc \in {"idle", "dead"}
    /\ Pending(r)
    /\ SchedAbort(r)
    /\ callbacks' = callbacks \ {r}
    /\ told' = told \cup {r}
    /\ cancelled' = cancelled \cup {r}
    /\ reqs' = reqs \ {r}
    /\ UNCHANGED <<completed, done, delivered, closed>>

(* abort_request when nothing of the request is pending any more. *)
AbortFinished(r) ==
    /\ pc \in {"idle", "dead"}
    /\ r \in Added /\ ~Pending(r)
    /\ callbacks' = callbacks \ {r}
    /\ UNCHANGED <<kvVars, schedVars, reqs, completed, cancelled, done, delivered, closed, told>>

-----------------------------------------------------------------------------
(* schedule(), one small step; the engine's own state does not change. *)
Schedule ==
    /\ \/ HasPendingRequests /\ ScheduleBegin
       \/ RecoverGroup \/ RecoverSequence \/ RecoverSequenceFails \/ RecoverDone
       \/ SortWaiting
       \/ AdmitEnds \/ AdmitGroup \/ AllocateAdmitted \/ AllocateDone
       \/ PreemptBegins \/ PreemptNobody
       \/ PreemptSwapOut \/ PreemptRelease \/ PreemptDone
       \/ SelectDecode
    /\ UNCHANGED engineVars

(* The highest position _build_slot_mapping looks up for a scheduled        *)
(* sequence: the last prompt token, or context_len for the one token of a   *)
(* decode.                                                                  *)
LastPosition(s) ==
    IF s \in {prefillIds[i] : i \in DOMAIN prefillIds} THEN PromptLength(s) - 1
    ELSE NumComputed(s)

SlotInTable(s) == LastPosition(s) \div BlockSize < Len(blocks[s])

(* The forward pass raises: a slot outside its block table, an empty        *)
(* prompt, or a failure of the model itself.                                *)
ForwardFails ==
    /\ pc = "forward"
    /\ \/ setting.forwardMayFail
       \/ \E s \in BatchSet : setting.paged /\ ~SlotInTable(s)
       \/ \E s \in BatchSet : PromptLength(s) = 0 /\ outLen[s] = 0
    /\ pc' = "dead"
    /\ UNCHANGED <<kvVars, shape, queueVars, status, outLen, localVars, engineVars>>

(* _get_finish_reason: the next token is the last one max_tokens allows.    *)
(* EOS and stop strings depend on the token: any may end its sequence.      *)
ReachesLimit(s) == outLen[s] + 1 >= shape[RequestOf(s)].maxNew

(* The forward pass, sampling and the loop over the batch: one more output  *)
(* token each; a sequence is complete on EOS, max_tokens or a stop string.  *)
Forward ==
    /\ pc = "forward"
    /\ \A s \in BatchSet : setting.paged => SlotInTable(s)
    /\ \A s \in BatchSet : PromptLength(s) + outLen[s] > 0
    /\ outLen' = [s \in Seqs |-> IF s \in BatchSet THEN outLen[s] + 1 ELSE outLen[s]]
    /\ \E ended \in SUBSET BatchSet :
          done' = ended \cup {s \in BatchSet : ReachesLimit(s)}
    /\ todo' = SelectSeq(Batch, LAMBDA s : s \notin done')
    /\ pc' = "append"
    /\ UNCHANGED <<kvVars, shape, queueVars, status, snapshot, cur, prefillIds, decodeIds,
                   schedTokens, reqs, callbacks, completed, cancelled, delivered, closed, told>>

(* update_after_step, one small step. *)
Update ==
    /\ UpdateAppend \/ UpdateAppendFails \/ UpdateComplete(done)
    /\ UNCHANGED engineVars

(* The requests of the batch for which _is_request_finished. *)
FinishedRequests ==
    {r \in reqs : /\ \E s \in Members(r) : s \in BatchSet
                  /\ \A s \in Members(r) : status[s] = "FINISHED"}

(* Mutant: the callbacks of finished requests are dropped first. *)
DeliverLate ==
    /\ pc = "deliver"
    /\ LET heard == {s \in BatchSet : RequestOf(s) \in callbacks \ FinishedRequests} IN
       /\ delivered' = [s \in Seqs |-> IF s \in heard THEN delivered[s] + 1 ELSE delivered[s]]
       /\ closed' = closed \cup (heard \cap done)
    /\ completed' = completed \cup FinishedRequests
    /\ told' = told \cup FinishedRequests
    /\ callbacks' = callbacks \ FinishedRequests
    /\ done' = {}
    /\ pc' = "idle"
    /\ UNCHANGED <<kvVars, shape, queueVars, status, outLen, localVars, reqs, cancelled>>

(* The outputs go to the callbacks, in batch order; then the requests that  *)
(* finished are reported and their callbacks dropped.                       *)
Deliver ==
    /\ pc = "deliver"
    /\ LET heard == {s \in BatchSet : RequestOf(s) \in callbacks} IN
       /\ delivered' = [s \in Seqs |-> IF s \in heard THEN delivered[s] + 1 ELSE delivered[s]]
       /\ closed' = closed \cup (heard \cap done)
    /\ completed' = completed \cup FinishedRequests
    /\ told' = told \cup FinishedRequests
    /\ callbacks' = callbacks \ FinishedRequests
    /\ done' = {}
    /\ pc' = "idle"
    /\ UNCHANGED <<kvVars, shape, queueVars, status, outLen, localVars, reqs, cancelled>>

(* The callback for the k-th output raises: the outputs before it have been *)
(* handed over, nothing after it happens.                                   *)
DeliverFails ==
    /\ pc = "deliver" /\ setting.callbackMayRaise
    /\ \E k \in DOMAIN Batch :
          /\ RequestOf(Batch[k]) \in callbacks
          /\ LET heard == {s \in {Batch[i] : i \in 1 .. k - 1} : RequestOf(s) \in callbacks} IN
             /\ delivered' = [s \in Seqs |-> IF s \in heard THEN delivered[s] + 1 ELSE delivered[s]]
             /\ closed' = closed \cup (heard \cap done)
    /\ completed' = completed \cup FinishedRequests
    /\ done' = {}
    /\ pc' = "dead"
    /\ UNCHANGED <<kvVars, shape, queueVars, status, outLen, localVars,
                   reqs, callbacks, cancelled, told>>

(* _engine_loop sleeps while nothing is pending, or has ended. *)
Rest ==
    /\ \/ pc = "idle" /\ ~HasPendingRequests
       \/ pc = "dead"
    /\ UNCHANGED vars

EngineStep ==
    /\ Schedule \/ Forward \/ ForwardFails \/ Update \/ Deliver \/ DeliverFails
    /\ UNCHANGED setting

EngineNext ==
    \/ /\ \E r \in Requests : \/ \E sh \in setting.shapes : AddRequest(r, sh)
                              \/ AbortRequest(r)
                              \/ AbortFinished(r)
       /\ UNCHANGED setting
    \/ EngineStep
    \/ Rest

EngineSpec == EngineInit /\ [][EngineNext]_vars

(* _engine_loop calls step() as long as something is pending, and a step    *)
(* runs to its end.                                                         *)
FairEngineSpec == EngineSpec /\ WF_vars(EngineStep)
-----------------------------------------------------------------------------

(* The queue a group stands in agrees with what its sequences are doing,    *)
(* and no group is lost or stands in two queues, through admission,         *)
(* preemption (when the victim is in none), failed recovery, completion and *)
(* abort.  schedule() relies on it: a group in no queue is never run again. *)
QueuesMatchStatuses ==
    LET W == InQueue(waiting) R == InQueue(running) S == InQueue(swappedQ)
        inFlight == IF pc \in {"swapout", "release"} THEN {cur} ELSE {}
        some(r, X) == \E s \in Members(r) : status[s] \in X
    IN  /\ W \cup R \cup S \cup inFlight = inSched
        /\ Len(waiting) + Len(running) + Len(swappedQ) + Cardinality(inFlight)
              = Cardinality(inSched)
        /\ \A r \in W : \A s \in Members(r) : status[s] = "WAITING"
        /\ \A r \in R : some(r, {"PREFILL", "DECODE"}) \/ (pc = "alloc" /\ r = cur)
        /\ \A r \in S : some(r, {"SWAPPED"}) /\ ~some(r, {"WAITING", "PREFILL", "DECODE"})

(* No GPU block is ever lost: each one is free or in the table of a         *)
(* sequence that is still active.  In particular the admission test in      *)
(* schedule() is enough for allocate_sequence never to raise half-way, and  *)
(* every way a sequence can end gives all its memory back.                  *)
NoBlockLost ==
    /\ free \cup UNION {Owned(s) : s \in Seqs} = Blocks
    /\ \A s \in Seqs : s \in known => status[s] \in {"PREFILL", "DECODE", "SWAPPED"}
                                      \/ (pc = "alloc" /\ status[s] = "WAITING")

(* What the forward pass is handed: sequences that are still active, none   *)
(* twice, within max_batch_size and max_tokens_per_step; a decoding one is  *)
(* registered in the cache and not swapped out, although recovery and       *)
(* preemption in the same schedule() call may have moved it both ways.      *)
BatchIsRunnable ==
    pc = "forward" =>
        /\ Cardinality(BatchSet) = Len(Batch)
        /\ Len(Batch) <= MaxBatch
        /\ schedTokens + Len(decodeIds) <= MaxStepTokens
        /\ BatchSet \subseteq known
        /\ \A i \in DOMAIN decodeIds :
              status[decodeIds[i]] = "DECODE" /\ decodeIds[i] \notin swapped

(* Everyone who must hear of a request has heard the truth.  No client has  *)
(* heard a token that was not generated, and ContextPilot is told that a    *)
(* request is gone only when none of its sequences holds KV any more, on    *)
(* the GPU or in a CPU buffer.  When the engine is between steps, every     *)
(* token of a completed request has reached its callback, the last one      *)
(* marked finished, and exactly the requests that ended are reported.       *)
EndsAreReported ==
    /\ \A s \in Seqs : delivered[s] <= outLen[s]
    /\ \A r \in told : \A s \in Members(r) :
          s \notin known /\ blocks[s] = <<>> /\ buffer[s] = None
    /\ pc = "idle" =>
          /\ \A r \in completed : \A s \in Members(r) : delivered[s] = outLen[s] /\ s \in closed
          /\ told = {r \in Added : \A s \in Members(r) : status[s] \in Terminal}

(* What a step may never do: give a sequence a status that set_status does  *)
(* not accept from the one it has (a handler would raise ValueError in the  *)
(* middle of its work, for groups of which some sequences have finished),   *)
(* give an ended sequence another token, or let the client of a cancelled   *)
(* one hear more.                                                           *)
TransitionsAllowed ==
    [][\A s \in Seqs :
         /\ status'[s] # status[s] /\ status[s] # "NEW" =>
               status'[s] \in AllowedTransitions[status[s]]
         /\ status[s] \in Terminal => outLen'[s] = outLen[s]
         /\ status[s] = "CANCELLED" => delivered'[s] = delivered[s]]_vars

(* The calls the engine makes on the KV cache are the calls of KVNext, in   *)
(* the states KVNext allows them: no append or write to a swapped-out       *)
(* sequence, no release of GPU blocks without a swap_out before.  So what   *)
(* is proved of KVSpec holds of the cache inside the engine.                *)
KeepsCacheProtocol == KVSpec

(* Nothing raises, every request fits in the cache and in a step by itself, *)
(* and none outgrows the blocks of its prompt.                              *)
Steady ==
    /\ ~setting.forwardMayFail /\ ~setting.callbackMayRaise /\ ~setting.paged
    /\ \A sh \in setting.shapes :
          /\ CeilDiv(sh.prompt + sh.maxNew - 1, BlockSize) = CeilDiv(sh.prompt, BlockSize)
          /\ sh.prompt > 0 /\ sh.n * CeilDiv(sh.prompt, BlockSize) <= NumBlocks
          /\ sh.n <= MaxBatch /\ sh.n * sh.prompt <= MaxStepTokens

(* Every request that is added is completed or cancelled: preemption and    *)
(* recovery starve nobody, under the conditions of Steady.                  *)
RequestsEnd ==
    \A r \in Requests : (Steady /\ r \in reqs) ~> (r \in completed \cup cancelled)

-----------------------------------------------------------------------------
(* Between steps a SWAPPED sequence still has its KV somewhere: in a CPU    *)
(* buffer, or in GPU blocks if the rest of its group could not come back    *)
(* (docs/contextpilot/eviction_lifecycle.md: "recoverable KV").             *)
SwappedIsRecoverable ==
    pc = "idle" => \A s \in Seqs :
        status[s] = "SWAPPED" => buffer[s] # None \/ blocks[s] # <<>>
=============================================================================
