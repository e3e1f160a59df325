--------------------------- MODULE ExpertExecutor ---------------------------
(***************************************************************************)
(* The forward passes of a model's MoE blocks through                      *)
(* DistributedExpertExecutor (distributed/expert_executor.py) and          *)
(* ExpertPrefetcher (memory/expert_prefetcher.py), over the dispatcher and *)
(* the prefetch thread.  A block dispatches the experts of its tokens,     *)
(* waits for all of them and returns their sum.                            *)
(***************************************************************************)
EXTENDS ExpertDispatcher, ExpertRouting

CONSTANTS
    Blocks,      \* [family, prefetch, overlap, fails, steps]: the models that are
                 \* run, with a bound on the blocks that are run
    Selections   \* Selections[family]: per pass, the tokens' selections

ASSUME StepsAssumption == \A b \in Blocks : b.steps \in Nat

VARIABLES
    block,     \* the model: constant of a behaviour
    pc, step, chosen,   \* the layer's thread; blocks begun; selections of the block
    todo,      \* experts still to be enqueued
    want, then,         \* nodes still to be prefetched, and where to go on
    predicted  \* _last_speculative_prediction

executorVars == <<block, pc, step, chosen, todo, want, then, predicted>>
vars == <<nodeVars, poolVars, dispatcherVars, executorVars>>

Init ==
    /\ PoolInit /\ DispatcherInit
    /\ block \in Blocks
    /\ pc = "idle" /\ step = 0 /\ chosen = <<>> /\ todo = {} /\ want = <<>> /\ then = "idle"
    /\ predicted = {}

Local == {"gptq", "gpt_oss_local"}   \* the blocks that do without the dispatcher
Layer == (step - 1) % NumLayers
Alive == dead = "no"

(* A block of the pass routes its tokens. *)
Dispatch ==
    /\ Alive /\ pc = "idle" /\ step < block.steps /\ block.family \notin Local
    /\ \E s \in Selections[block.family] :
         LET routes == [t \in DOMAIN s |-> Route(block.family, Experts, s[t])]
             list == ExpertList(Experts, routes)
         IN /\ step % NumLayers # 0 => Len(s) = Len(chosen)
            /\ chosen' = s /\ todo' = list
            /\ SetInputs(routes, Cardinality(list))
    /\ step' = step + 1 /\ pc' = "enqueue"
    /\ UNCHANGED <<nodeVars, poolVars, block, want, then, predicted>>

(* A block that does not use the dispatcher. *)
DispatchNothing ==
    /\ Alive /\ pc = "idle" /\ step < block.steps /\ block.family \in Local
    /\ \E s \in Selections[block.family] :
         /\ chosen' = s
         /\ final' = IF block.family = "gptq" THEN GptqForward(Experts, s) ELSE GptOssForward(Experts, s)
    /\ step' = step + 1 /\ pc' = "collect"
    /\ UNCHANGED <<nodeVars, poolVars, routing, pending, failed, everFailed, fetchVars, execs, run,
                   cacheVars, waiter, dead, block, todo, want, then, predicted>>

NextExpert == <<Layer, Min(todo)>>

EnqueueNext ==
    /\ Alive /\ pc = "enqueue" /\ todo # {}
    /\ Enqueue(NextExpert) /\ todo' = todo \ {Min(todo)}
    /\ UNCHANGED <<poolVars, block, pc, step, chosen, want, then, predicted>>

EnqueueFails ==
    /\ Alive /\ pc = "enqueue" /\ todo # {} /\ exec[NextExpert] # "IDLE" /\ pc' = "locked"
    /\ UNCHANGED <<nodeVars, poolVars, dispatcherVars, block, step, chosen, todo, want, then, predicted>>

EnqueueBehindPrefetch ==
    /\ Alive /\ pc = "locked" /\ EnqueueLocked(NextExpert)
    /\ todo' = todo \ {Min(todo)} /\ pc' = "enqueue"
    /\ UNCHANGED <<poolVars, block, step, chosen, want, then, predicted>>

InOrder(layer, S) == [i \in 1..Cardinality(S) |-> <<layer, SetToSortSeq(S, <)[i]>>]

(* speculative_prefetch: the two best experts of this layer's logits, for   *)
(* the next layer.                                                          *)
Speculate(next) ==
    /\ IF Layer + 1 >= NumLayers \/ chosen = <<>>
       THEN UNCHANGED <<want, predicted>>
       ELSE \E S \in kSubset(Min({2, Cardinality(Experts)}), Experts) :
              want' = InOrder(Layer + 1, S) /\ predicted' = S
    /\ then' = next

(* The end of dispatch_local: with overlap the next layer's experts are     *)
(* prefetched now.                                                          *)
Enqueued ==
    /\ Alive /\ pc = "enqueue" /\ todo = {} /\ pc' = "issue"
    /\ IF block.prefetch /\ block.overlap THEN Speculate("wait")
       ELSE then' = "wait" /\ UNCHANGED <<want, predicted>>
    /\ UNCHANGED <<nodeVars, poolVars, dispatcherVars, block, step, chosen, todo>>

(* prefetch_experts_list *)
Issue ==
    /\ Alive /\ pc = "issue"
    /\ IF want # <<>>
       THEN EnqueuePrefetch(Head(want)) /\ want' = Tail(want) /\ UNCHANGED <<pc, waiter>>
       ELSE /\ pc' = then /\ waiter' = IF then = "wait" THEN "check" ELSE waiter
            /\ UNCHANGED <<nodeVars, poolVars, want>>
    /\ UNCHANGED <<layerVars, fetchVars, execs, run, cacheVars, dead, block, step, chosen, todo, then, predicted>>

(* wait_expert returns. *)
Collect ==
    /\ Alive /\ pc = "wait" /\ waiter = "through" /\ pc' = "collect" /\ waiter' = "away"
    /\ UNCHANGED <<nodeVars, poolVars, layerVars, fetchVars, execs, run, cacheVars, dead,
                   block, step, chosen, todo, want, then, predicted>>

(* correct_prefetch: the experts of THIS layer that were not predicted are  *)
(* prefetched in the next one.                                              *)
Correct ==
    /\ Alive /\ pc = "collect" /\ pc' = "issue" /\ then' = "speculate"
    /\ want' = IF block.prefetch /\ Layer + 1 < NumLayers
               THEN InOrder(Layer + 1, ExpertList(Experts, routing) \ predicted) ELSE <<>>
    /\ predicted' = {}
    /\ UNCHANGED <<nodeVars, poolVars, dispatcherVars, block, step, chosen, todo>>

(* Without overlap the next layer's experts are prefetched only now. *)
SpeculateAfter ==
    /\ Alive /\ pc = "speculate" /\ pc' = "issue"
    /\ IF block.prefetch /\ ~block.overlap THEN Speculate("idle")
       ELSE then' = "idle" /\ UNCHANGED <<want, predicted>>
    /\ UNCHANGED <<nodeVars, poolVars, dispatcherVars, block, step, chosen, todo>>

ExecutorStep ==
    \/ EnqueueNext \/ EnqueueFails \/ EnqueueBehindPrefetch \/ Enqueued \/ Issue
    \/ Collect \/ Correct \/ SpeculateAfter

Waits == Alive /\ WaitStep /\ UNCHANGED <<poolVars, executorVars>>
Fetches == Alive /\ FetchStep /\ UNCHANGED <<poolVars, executorVars>>
FetchAborts == Alive /\ FetchGivesUp /\ UNCHANGED <<poolVars, executorVars>>
Executes == Alive /\ ExecStep /\ UNCHANGED <<poolVars, executorVars>>

(* A forward raises because the expert's tensors are not on the GPU, or for *)
(* a reason of its own (once per behaviour).                                *)
ExecuteRaises ==
    /\ Alive /\ run.at = "forward" /\ (~gpu[run.node] \/ (block.fails /\ ~everFailed))
    /\ ExecRaises /\ UNCHANGED <<poolVars, executorVars>>

Prefetches == Alive /\ PoolStep /\ UNCHANGED <<dispatcherVars, executorVars>>

Next ==
    \/ Dispatch \/ DispatchNothing \/ ExecutorStep \/ Waits
    \/ Fetches \/ FetchAborts \/ Executes \/ ExecuteRaises \/ Prefetches

(* Every thread goes on; no block is forced to begin, no forward to raise.  *)
Fairness ==
    /\ WF_vars(ExecutorStep) /\ WF_vars(Waits)
    /\ WF_vars(Fetches) /\ WF_vars(Executes) /\ WF_vars(Prefetches)

Spec == Init /\ [][Next]_vars /\ Fairness

-----------------------------------------------------------------------------


(* Without prefetching the GPU's memory is accounted for.  What the         *)
(* dispatcher counts as cached is what it paid for, and is on the GPU; and  *)
(* as long as no forward raised at most one expert more than fits is there  *)
(* ("only one extra cache slot for prefill"), the slot being taken by       *)
(* exactly one expert that will give it back.                               *)
GpuAccounted ==
    ~block.prefetch =>
        /\ room >= 0 /\ room + Cardinality(cached) = Capacity /\ \A n \in cached : gpu[n]
        /\ ~everFailed =>
              /\ Cardinality({n \in Nodes : gpu[n]}) <= Capacity + 1
              /\ (IF overload THEN 1 ELSE 0) =
                   Cardinality({i \in DOMAIN execs : execs[i].evict})
                   + (IF run.evict /\ run.at \in {"forward", "unlock", "evict"} THEN 1 ELSE 0)
                   + (IF fetch.at = "load" /\ overload THEN 1 ELSE 0)

(* An expert that is run as a cache hit is on the GPU (Enqueue: "expert is  *)
(* already on GPU, no H2D wait needed").                                    *)
HitIsOnGpu == run.at = "forward" /\ run.hit => gpu[run.node]

(* Every expert of a prefill batch is executed, unless the process ends or  *)
(* a forward raised: the extra slot always comes back, and a prefetch that  *)
(* is waited for ends.  And Enqueue ends the process only where a prefetch  *)
(* thread competes for the nodes: the layers of one model never lock each   *)
(* other's experts.                                                         *)
PrefillCompletes ==
    /\ (BatchSize > 1 /\ pending > 0) ~> (pending = 0 \/ dead # "no" \/ everFailed)
    /\ [](dead = "enqueue" => block.prefetch)
=============================================================================
