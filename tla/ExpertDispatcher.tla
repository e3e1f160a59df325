-------------------------- MODULE ExpertDispatcher --------------------------
(***************************************************************************)
(* ExpertDispatcher (core/parallel/expert_dispatcher.cpp) for one GPU: the *)
(* calls of the layer's thread, the fetch thread and the exec thread.      *)
(*                                                                         *)
(* The condition variables are waited on under a mutex that the notifying  *)
(* thread does not take: between looking at the predicate ("check") and    *)
(* falling asleep a thread is in "blocking", where no notification reaches *)
(* it.                                                                     *)
(***************************************************************************)
EXTENDS ExpertTaskPool

VARIABLES
    routing,    \* router_mask_ and router_weight_: per token, its experts and their weights
    pending,    \* pending_
    final,      \* final_hidden_states_: per token, the weight added per expert
    failed,     \* experts of this layer whose forward raised
    everFailed, \* history: some forward ever raised
    inputs, fetch,     \* input_queue_ and the fetch thread
    execs, run,        \* exec_queue_ and the exec thread
    room, cached, overload,  \* cache_sizes_ (in experts), cached_experts_, gpu_overload_
    waiter,     \* the thread in WaitHiddenStates
    dead        \* the FATAL message that ended the process, or "no"

fetchVars == <<inputs, fetch>>
cacheVars == <<room, cached, overload>>
layerVars == <<routing, pending, final, failed, everFailed>>
dispatcherVars == <<layerVars, fetchVars, execs, run, cacheVars, waiter, dead>>

FetchIdle == [at |-> "idle", node |-> NoNode, victim |-> NoNode]
RunIdle == [at |-> "idle", node |-> NoNode, evict |-> FALSE, hit |-> FALSE]
Call(n, wait) == [node |-> n, wait |-> wait]
Exec(n, evict, hit) == [node |-> n, evict |-> evict, hit |-> hit]

DispatcherInit ==
    /\ routing = <<>> /\ pending = 0 /\ final = <<>> /\ failed = {} /\ everFailed = FALSE
    /\ inputs = <<>> /\ fetch = FetchIdle /\ execs = <<>> /\ run = RunIdle
    /\ room = Capacity /\ cached = {} /\ overload = FALSE
    /\ waiter = "away" /\ dead = "no"

BatchSize == Len(routing)
NoWeights == [e \in Experts |-> 0]

(* SetInputs and SetExpectedQueue *)
SetInputs(routes, expected) ==
    /\ routing' = routes /\ final' = [t \in DOMAIN routes |-> NoWeights]
    /\ pending' = expected /\ failed' = {}
    /\ UNCHANGED <<everFailed, fetchVars, execs, run, cacheVars, waiter, dead>>

-----------------------------------------------------------------------------
(* Enqueue, in the layer's thread. *)

(* The lock is taken: a node on the GPU goes straight to the exec thread. *)
Enqueue(n) ==
    /\ exec[n] = "IDLE"
    /\ exec' = [exec EXCEPT ![n] = "FETCHING"]
    /\ IF gpu[n] THEN execs' = Append(execs, Exec(n, FALSE, TRUE)) /\ UNCHANGED inputs
                 ELSE inputs' = Append(inputs, Call(n, FALSE)) /\ UNCHANGED execs
    /\ UNCHANGED <<prefetching, waiting, gpu, layerVars, fetch, run, cacheVars, waiter, dead>>

(* The lock was not free: the node is being prefetched, or the process ends. *)
EnqueueLocked(n) ==
    /\ IF prefetching[n]
       THEN /\ waiting' = [waiting EXCEPT ![n] = @ + 1]
            /\ inputs' = Append(inputs, Call(n, TRUE)) /\ UNCHANGED dead
       ELSE dead' = "enqueue" /\ UNCHANGED <<waiting, inputs>>
    /\ UNCHANGED <<exec, prefetching, gpu, layerVars, fetch, execs, run, cacheVars, waiter>>

-----------------------------------------------------------------------------
(* GPUFetchFunc *)

Goto(at) == fetch' = [fetch EXCEPT !.at = at]
FetchOnly == UNCHANGED <<layerVars, inputs, execs, run, cacheVars, waiter, dead>>

FetchPop ==
    /\ fetch.at = "idle" /\ inputs # <<>>
    /\ fetch' = [FetchIdle EXCEPT !.at = IF Head(inputs).wait THEN "spin" ELSE "room",
                                  !.node = Head(inputs).node]
    /\ inputs' = Tail(inputs)
    /\ UNCHANGED <<nodeVars, layerVars, execs, run, cacheVars, waiter, dead>>

FetchSpin == fetch.at = "spin" /\ exec[fetch.node] = "IDLE" /\ Goto("claim") /\ UNCHANGED nodeVars /\ FetchOnly

(* The prefetch is over; whether the lock was won is not looked at. *)
FetchClaim ==
    /\ fetch.at = "claim"
    /\ exec' = [exec EXCEPT ![fetch.node] = "FETCHING"]
    /\ waiting' = [waiting EXCEPT ![fetch.node] = @ - 1]
    /\ IF gpu[fetch.node]
       THEN execs' = Append(execs, Exec(fetch.node, FALSE, TRUE)) /\ fetch' = FetchIdle
       ELSE Goto("room") /\ UNCHANGED execs
    /\ UNCHANGED <<prefetching, gpu, layerVars, inputs, run, cacheVars, waiter, dead>>

FetchRoom ==
    /\ fetch.at = "room"
    /\ Goto(IF gpu[fetch.node] \/ room >= 1 THEN "load"
            ELSE IF BatchSize > 1 THEN "overload" ELSE "find")
    /\ UNCHANGED nodeVars /\ FetchOnly

(* Prefill: one more expert than fits, when the one before has left. *)
FetchOverload ==
    /\ fetch.at = "overload" /\ ~overload /\ overload' = TRUE /\ Goto("load")
    /\ UNCHANGED <<nodeVars, layerVars, inputs, execs, run, room, cached, waiter, dead>>

(* FindExpertEvict *)
Evictable == {n \in cached : gpu[n] /\ waiting[n] = 0 /\ exec[n] = "IDLE"}

(* Decode: a victim, found at once, after waiting, or in one of the retries. *)
FetchFind ==
    /\ fetch.at \in {"find", "again", "retry"}
    /\ \E v \in Evictable : fetch' = [fetch EXCEPT !.at = "evict", !.victim = v]
    /\ UNCHANGED nodeVars /\ FetchOnly

FetchFindsNone ==
    /\ fetch.at \in {"find", "again"} /\ Evictable = {}
    /\ Goto(IF fetch.at = "find" THEN "check" ELSE "retry")
    /\ UNCHANGED nodeVars /\ FetchOnly

FetchCheck ==
    /\ fetch.at = "check" /\ Goto(IF Evictable # {} THEN "again" ELSE "blocking")
    /\ UNCHANGED nodeVars /\ FetchOnly

FetchSleep == fetch.at = "blocking" /\ Goto("asleep") /\ UNCHANGED nodeVars /\ FetchOnly

(* A hundred retries of a millisecond were not enough. *)
FetchGivesUp ==
    /\ fetch.at = "retry" /\ Evictable = {} /\ dead' = "retries"
    /\ UNCHANGED <<nodeVars, layerVars, fetchVars, execs, run, cacheVars, waiter>>

(* Mutant: the victim stays in cached_experts_. *)
FetchEvictKeepsKey ==
    /\ fetch.at = "evict" /\ Goto("load")
    /\ gpu' = [gpu EXCEPT ![fetch.victim] = FALSE] /\ room' = room + 1
    /\ UNCHANGED <<exec, prefetching, waiting, layerVars, inputs, execs, run, cached, overload, waiter, dead>>

(* The victim's lock is not taken. *)
FetchEvict ==
    /\ fetch.at = "evict" /\ Goto("load")
    /\ gpu' = [gpu EXCEPT ![fetch.victim] = FALSE]
    /\ room' = room + 1 /\ cached' = cached \ {fetch.victim}
    /\ UNCHANGED <<exec, prefetching, waiting, layerVars, inputs, execs, run, overload, waiter, dead>>

FetchLoad ==
    /\ fetch.at = "load" /\ fetch' = FetchIdle
    /\ IF overload THEN UNCHANGED <<room, cached>>
       ELSE room' = room - 1 /\ cached' = cached \cup {fetch.node}
    /\ gpu' = [gpu EXCEPT ![fetch.node] = TRUE]
    /\ execs' = Append(execs, Exec(fetch.node, overload, gpu[fetch.node]))
    /\ UNCHANGED <<exec, prefetching, waiting, layerVars, inputs, run, overload, waiter, dead>>

FetchStep ==
    \/ FetchPop \/ FetchSpin \/ FetchClaim \/ FetchRoom \/ FetchOverload \/ FetchFind
    \/ FetchFindsNone \/ FetchCheck \/ FetchSleep \/ FetchEvict \/ FetchLoad

-----------------------------------------------------------------------------
(* GPUExecFunc and OutputFunc *)

ExecPop ==
    /\ run.at = "idle" /\ execs # <<>>
    /\ run' = [at |-> "forward", node |-> Head(execs).node, evict |-> Head(execs).evict, hit |-> Head(execs).hit]
    /\ execs' = Tail(execs)
    /\ UNCHANGED <<nodeVars, layerVars, fetchVars, cacheVars, waiter, dead>>

(* pending_.fetch_sub(1); the last one notifies. *)
Done ==
    /\ pending' = pending - 1
    /\ waiter' = IF pending = 1 /\ waiter = "asleep" THEN "check" ELSE waiter

ExecForward ==
    /\ run.at = "forward" /\ run' = [run EXCEPT !.at = "unlock"]
    /\ UNCHANGED <<nodeVars, layerVars, fetchVars, execs, cacheVars, waiter, dead>>

(* The forward raises: the extra slot, if this expert had it, stays taken.  *)
ExecRaises ==
    /\ run.at = "forward" /\ run' = RunIdle
    /\ exec' = [exec EXCEPT ![run.node] = "IDLE"]
    /\ failed' = failed \cup {run.node[2]} /\ everFailed' = TRUE /\ Done
    /\ UNCHANGED <<prefetching, waiting, gpu, routing, final, fetchVars, execs, cacheVars, dead>>

OutputUnlock ==
    /\ run.at = "unlock" /\ run' = [run EXCEPT !.at = "evict"]
    /\ exec' = [exec EXCEPT ![run.node] = "IDLE"]
    /\ UNCHANGED <<prefetching, waiting, gpu, layerVars, fetchVars, execs, cacheVars, waiter, dead>>

(* Mutant: the extra slot is not given back. *)
OutputKeepsSlot ==
    /\ run.at = "evict" /\ run' = [run EXCEPT !.at = "add"]
    /\ gpu' = IF run.evict THEN [gpu EXCEPT ![run.node] = FALSE] ELSE gpu
    /\ UNCHANGED <<exec, prefetching, waiting, layerVars, fetchVars, execs, cacheVars, waiter, dead>>

(* The extra expert leaves; cache_cv_ is notified. *)
OutputEvict ==
    /\ run.at = "evict" /\ run' = [run EXCEPT !.at = "add"]
    /\ IF run.evict THEN gpu' = [gpu EXCEPT ![run.node] = FALSE] /\ overload' = FALSE
       ELSE UNCHANGED <<gpu, overload>>
    /\ fetch' = IF fetch.at = "asleep" THEN [fetch EXCEPT !.at = "check"] ELSE fetch
    /\ UNCHANGED <<exec, prefetching, waiting, layerVars, inputs, execs, room, cached, waiter, dead>>


(* Weighted, for the tokens of this expert's mask; a single token needs no  *)
(* mask.                                                                    *)
OutputAdd ==
    /\ run.at = "add" /\ run' = RunIdle
    /\ LET e == run.node[2]
       IN final' = [t \in DOMAIN final |->
                      IF BatchSize = 1 \/ e \in routing[t].mask
                      THEN [final[t] EXCEPT ![e] = @ + routing[t].weight[e]] ELSE final[t]]
    /\ Done
    /\ UNCHANGED <<nodeVars, routing, failed, everFailed, fetchVars, execs, cacheVars, dead>>

ExecStep == ExecPop \/ ExecForward \/ OutputUnlock \/ OutputEvict \/ OutputAdd

-----------------------------------------------------------------------------
(* WaitHiddenStates, in the layer's thread *)

WaitCheck ==
    /\ waiter = "check" /\ waiter' = IF pending = 0 THEN "through" ELSE "blocking"
    /\ UNCHANGED <<nodeVars, layerVars, fetchVars, execs, run, cacheVars, dead>>

WaitSleep ==
    /\ waiter = "blocking" /\ waiter' = "asleep"
    /\ UNCHANGED <<nodeVars, layerVars, fetchVars, execs, run, cacheVars, dead>>

WaitStep == WaitCheck \/ WaitSleep
=============================================================================
