-------------------------- MODULE OffloadScheduler --------------------------
(***************************************************************************)
(* The scheduler of the native engine (engine/scheduler.py) over           *)
(* KVCacheManager: admission through the prefix cache, preemption that     *)
(* swaps a running request out to the CPU, resumption that swaps it back   *)
(* in, and the block index it keeps for ContextPilot (cp_kv_interface.py). *)
(*                                                                         *)
(* schedule() is one call in one thread.  Here it is a loop of steps, the  *)
(* iterations of its three loops; `at' says which loop it is in.  A        *)
(* transfer is what the call waits for: it is reported as completed or the *)
(* wait times out after 5 seconds, and either may happen at any time (see  *)
(* TransferScheduler for how).  A request that is cancelled after a        *)
(* timeout is prefilled again.                                             *)
(***************************************************************************)
EXTENDS KVCacheManager, FiniteSets

CONSTANTS
    Requests,
    Prompt,      \* [full |-> its full blocks, tail |-> tokens after them]
    NumGpu, NumCpu, BlockSize,
    MaxSeqs,     \* max_num_seqs
    MaxTokens,   \* max_num_batched_tokens
    Other,       \* the sequence of a generate() call, which is no request
    UseCP        \* set_cp_kv_manager was called

VARIABLES
    kv,
    waiting, running, swappedQ,   \* _waiting, _running, _swapped
    status,                       \* Request.status; "NEW" before, "DONE" after
    ids,                          \* _swapped_gpu_ids, <<>> for no entry
    flagged,                      \* _swap_needs_reprefill
    told,                         \* _cp_request_block_hashes, <<>> for no entry
    index,                        \* ContextPilotKVManager._request_to_blocks
    at, prior, fresh, batch, tokens   \* where schedule() is, and its locals

queues == <<waiting, running, swappedQ>>
local == <<prior, fresh, batch, tokens>>
schedVars == <<kv, queues, status, ids, flagged, told, index, at, local>>

PromptHashes(r) == Hashes(Prompt[r].full)
PromptTokens(r) == Len(Prompt[r].full) * BlockSize + Prompt[r].tail
AllHashes == UNION {ToSet(PromptHashes(r)) : r \in Requests}

SchedInit ==
    /\ kv = NewKV(Requests \cup {Other}, NumGpu, NumCpu, AllHashes)
    /\ waiting = <<>> /\ running = <<>> /\ swappedQ = <<>>
    /\ status = [r \in Requests |-> "NEW"]
    /\ ids = [r \in Requests |-> <<>>]
    /\ flagged = {}
    /\ told = [r \in Requests |-> <<>>]
    /\ index = [r \in Requests |-> <<>>]
    /\ at = "idle" /\ prior = <<>> /\ fresh = <<>> /\ batch = {} /\ tokens = 0

-----------------------------------------------------------------------------
(* notify_blocks_allocated replaces what the index has for the request. *)
NotifyAllocated(r) ==
    /\ told' = [told EXCEPT ![r] = PromptHashes(r)]
    /\ index' = IF UseCP /\ PromptHashes(r) # <<>>
                THEN [index EXCEPT ![r] = PromptHashes(r)] ELSE index

(* _notify_cp_blocks_freed, and notify_blocks_freed behind it. *)
NotifyFreed(r) ==
    /\ told' = [told EXCEPT ![r] = <<>>]
    /\ index' = IF UseCP
                THEN [index EXCEPT ![r] = SelectSeq(@, LAMBDA h : h \notin ToSet(told[r]))]
                ELSE index

(* _allocate_with_prefix_cache: the cached prefix is shared, the rest of    *)
(* the prompt takes new blocks.                                             *)
CachedTokens(r) == Matched(kv.gpu, PromptHashes(r)) * BlockSize
NewBlocks(r) == CeilDiv(PromptTokens(r) - CachedTokens(r), BlockSize)
Shared(r) == GetCachedBlocks(kv.gpu, PromptHashes(r))
HasRoom(r) == Len(Shared(r).free) >= NewBlocks(r)

WithBlocks(r) ==
    LET new == SubSeq(Shared(r).free, 1, NewBlocks(r))
        all == CachedBlocks(kv.gpu, PromptHashes(r)) \o new
    IN [kv EXCEPT !.gpu = AllocateBlocks(Shared(r), NewBlocks(r)),
                  !.gpuTracked = @ \cup ToSet(all),
                  !.table[r] = all]

(* No room: the cached blocks are released first, then the new ones. *)
WithoutBlocks(r) ==
    LET left == Shared(r).free IN
    [kv EXCEPT !.gpu = FreeBlocks(AllocateBlocks(Shared(r), Len(left)),
                                  CachedBlocks(kv.gpu, PromptHashes(r)) \o left)]

-----------------------------------------------------------------------------
AddRequest(r) ==
    /\ at = "idle" /\ status[r] = "NEW"
    /\ status' = [status EXCEPT ![r] = "WAITING"]
    /\ waiting' = Append(waiting, r)
    /\ UNCHANGED <<kv, running, swappedQ, ids, flagged, told, index, at, local>>

(* schedule() starts: the queue of swapped requests is set aside, and the   *)
(* waiting ones are sorted by predicted reuse, stably.                      *)
ScheduleBegins ==
    /\ at = "idle"
    /\ at' = "admit"
    /\ prior' = swappedQ /\ swappedQ' = <<>>
    /\ fresh' = <<>> /\ batch' = {} /\ tokens' = 0
    /\ \E high \in IF UseCP THEN SUBSET ToSet(waiting) ELSE {{}} :
          waiting' = SelectSeq(waiting, LAMBDA r : r \in high)
                     \o SelectSeq(waiting, LAMBDA r : r \notin high)
    /\ UNCHANGED <<kv, running, status, ids, flagged, told, index>>

(* The admission loop is left and new_running joins _running. *)
LeaveAdmission ==
    /\ at' = "resume"
    /\ running' = running \o fresh
    /\ fresh' = <<>>

AdmissionEnds ==
    /\ at = "admit"
    /\ waiting = <<>> \/ Len(running) + Len(fresh) >= MaxSeqs
    /\ LeaveAdmission
    /\ UNCHANGED <<kv, waiting, swappedQ, status, ids, flagged, told, index, prior, batch, tokens>>

Admitting == at = "admit" /\ waiting # <<>> /\ Len(running) + Len(fresh) < MaxSeqs

Admit ==
    LET r == Head(waiting)
        cost == PromptTokens(r) - CachedTokens(r)
    IN
    /\ Admitting /\ HasRoom(r) /\ tokens + cost <= MaxTokens
    /\ kv' = WithBlocks(r)
    /\ NotifyAllocated(r)
    /\ waiting' = Tail(waiting)
    /\ status' = [status EXCEPT ![r] = "RUNNING"]
    /\ fresh' = Append(fresh, r)
    /\ batch' = batch \cup {r}
    /\ tokens' = tokens + cost
    /\ UNCHANGED <<running, swappedQ, ids, flagged, at, prior>>

(* The blocks are there, the token budget is not: they are given back. *)
AdmitOverBudget ==
    LET r == Head(waiting) IN
    /\ Admitting /\ HasRoom(r)
    /\ tokens + PromptTokens(r) - CachedTokens(r) > MaxTokens
    /\ kv' = FreeSequence(WithBlocks(r), r)
    /\ told' = [told EXCEPT ![r] = <<>>]
    /\ index' = IF UseCP /\ PromptHashes(r) # <<>> THEN [index EXCEPT ![r] = <<>>] ELSE index
    /\ LeaveAdmission
    /\ UNCHANGED <<waiting, swappedQ, status, ids, flagged, prior, batch, tokens>>

(* No room: a running request is preempted, or the loop ends. *)
AdmitRefused ==
    LET r == Head(waiting) IN
    /\ Admitting /\ ~HasRoom(r)
    /\ kv' = WithoutBlocks(r)
    /\ IF running # <<>> THEN at' = "preempt" /\ UNCHANGED <<running, fresh>>
                         ELSE LeaveAdmission
    /\ UNCHANGED <<waiting, swappedQ, status, ids, flagged, told, index, prior, batch, tokens>>

-----------------------------------------------------------------------------

(* _preempt_with_transfer(the head of _running): what all ways share. *)
Preempt(v) ==
    /\ at = "preempt" /\ running # <<>> /\ v = Head(running)
    /\ at' = "admit"
    /\ running' = Tail(running)
    /\ status' = [status EXCEPT ![v] = "SWAPPED"]
    /\ swappedQ' = Append(swappedQ, v)
    /\ UNCHANGED <<waiting, local>>

(* The CPU pool is full: the blocks are dropped. *)
PreemptWithoutCopy(v) ==
    /\ Preempt(v) /\ ~CanSwapOut(kv, v)
    /\ kv' = FreeSequence(SwapOutRefused(kv, v), v)
    /\ NotifyFreed(v)
    /\ flagged' = flagged \cup {v}
    /\ UNCHANGED ids

PreemptToCpu(v) ==
    /\ Preempt(v) /\ CanSwapOut(kv, v)
    /\ kv' = SwapOut(kv, v)
    /\ ids' = [ids EXCEPT ![v] = kv.table[v]]
    /\ UNCHANGED <<flagged, told, index>>

(* The wait for the transfer timed out: it is cancelled and nothing of the  *)
(* request is kept.                                                         *)
PreemptTimesOut(v) ==
    /\ Preempt(v) /\ CanSwapOut(kv, v)
    /\ kv' = FreeSequence(SwapOut(kv, v), v)
    /\ NotifyFreed(v)
    /\ ids' = [ids EXCEPT ![v] = <<>>]
    /\ flagged' = flagged \cup {v}

-----------------------------------------------------------------------------
(* The loop over the requests that were swapped when schedule() began. *)
Resuming(r) == at = "resume" /\ prior # <<>> /\ r = Head(prior) /\ prior' = Tail(prior)
SlotFree == Len(running) < MaxSeqs

StaysSwapped(r) ==
    /\ swappedQ' = Append(swappedQ, r)
    /\ UNCHANGED <<waiting, running, status>>

BackToWaiting(r) ==
    /\ status' = [status EXCEPT ![r] = "WAITING"]
    /\ waiting' = <<r>> \o waiting
    /\ UNCHANGED <<running, swappedQ>>

ResumeNoSlot(r) ==
    /\ Resuming(r) /\ ~SlotFree
    /\ StaysSwapped(r)
    /\ UNCHANGED <<kv, ids, flagged, told, index, at, fresh, batch, tokens>>

ResumeReprefill(r) ==
    /\ Resuming(r) /\ SlotFree /\ r \in flagged
    /\ flagged' = flagged \ {r}
    /\ BackToWaiting(r)
    /\ UNCHANGED <<kv, ids, told, index, at, fresh, batch, tokens>>


ResumeRefused(r) ==
    /\ Resuming(r) /\ SlotFree /\ r \notin flagged /\ ~CanSwapIn(kv, ids[r])
    /\ kv' = SwapInRefused(kv, ids[r])
    /\ StaysSwapped(r)
    /\ UNCHANGED <<ids, flagged, told, index, at, fresh, batch, tokens>>

ResumeFromCpu(r) ==
    /\ Resuming(r) /\ SlotFree /\ r \notin flagged /\ CanSwapIn(kv, ids[r])
    /\ kv' = SwapIn(kv, r, ids[r])
    /\ ids' = [ids EXCEPT ![r] = <<>>]
    /\ status' = [status EXCEPT ![r] = "RUNNING"]
    /\ running' = Append(running, r)
    /\ UNCHANGED <<waiting, swappedQ, flagged, told, index, at, fresh, batch, tokens>>

(* The wait timed out: what was swapped in is freed.  The request goes to   *)
(* _waiting, and is marked as if it were still swapped.                     *)
ResumeTimesOut(r) ==
    /\ Resuming(r) /\ SlotFree /\ r \notin flagged /\ CanSwapIn(kv, ids[r])
    /\ kv' = FreeSequence(SwapIn(kv, r, ids[r]), r)
    /\ NotifyFreed(r)
    /\ ids' = [ids EXCEPT ![r] = <<>>]
    /\ flagged' = flagged \cup {r}
    /\ BackToWaiting(r)
    /\ UNCHANGED <<at, fresh, batch, tokens>>

(* The rest of _running decodes one token each, while the budget lasts. *)
ScheduleEnds ==
    LET rest == SelectSeq(running, LAMBDA r : r \notin batch)
        n    == Min({Len(rest), MaxTokens - tokens})
    IN
    /\ at = "resume" /\ prior = <<>>
    /\ at' = "idle"
    /\ batch' = batch \cup {rest[i] : i \in 1 .. n}
    /\ tokens' = tokens + n
    /\ UNCHANGED <<kv, queues, status, ids, flagged, told, index, prior, fresh>>

(* _register_completed_blocks_in_cache: the full prompt blocks of r. *)
Registered(r) ==
    LET hs == PromptHashes(r)
        bs == kv.table[r]
        n  == Min({Len(hs), Len(bs)})
    IN FoldLeft(LAMBDA k, i : [k EXCEPT !.gpu = CacheFullBlock(k.gpu, bs[i], hs[i])],
                kv, [i \in 1 .. n |-> i])

(* finish_request(r), for an end or for an abort, in any of its states. *)
FinishRequest(r) ==
    /\ at = "idle" /\ status[r] \in {"WAITING", "RUNNING", "SWAPPED"}
    /\ status' = [status EXCEPT ![r] = "DONE"]
    /\ waiting' = Remove(waiting, r) /\ running' = Remove(running, r)
    /\ swappedQ' = Remove(swappedQ, r)
    /\ ids' = [ids EXCEPT ![r] = <<>>]
    /\ flagged' = flagged \ {r}
    /\ NotifyFreed(r)
    /\ kv' = FreeSequence(Registered(r), r)
    /\ UNCHANGED <<at, local>>

ScheduleStep ==
    \/ AdmissionEnds \/ Admit \/ AdmitOverBudget \/ AdmitRefused
    \/ \E r \in Requests :
          \/ PreemptWithoutCopy(r) \/ PreemptToCpu(r) \/ PreemptTimesOut(r)
          \/ ResumeNoSlot(r) \/ ResumeReprefill(r) \/ ResumeRefused(r)
          \/ ResumeFromCpu(r) \/ ResumeTimesOut(r)
    \/ ScheduleEnds

SchedNext ==
    \/ \E r \in Requests : AddRequest(r) \/ FinishRequest(r)
    \/ ScheduleBegins
    \/ ScheduleStep
=============================================================================
