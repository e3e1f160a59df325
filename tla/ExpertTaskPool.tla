--------------------------- MODULE ExpertTaskPool ---------------------------
(***************************************************************************)
(* The nodes of the experts and the thread that prefetches them            *)
(* (core/prefetch/task_scheduler.cpp), for one GPU with room for Capacity  *)
(* experts.  Visit counts only order the victims, so a victim is any of    *)
(* those the code may pick.                                                *)
(***************************************************************************)
EXTENDS Integers, Sequences, FiniteSets, SequencesExt

CONSTANTS
    NumLayers,   \* MoE layers, counted from 0
    Experts,     \* the experts of a layer, integers
    Capacity     \* the sparse cache limit of the GPU, in experts

ASSUME PoolAssumption == NumLayers \in Nat \ {0} /\ Experts \subseteq Nat /\ Capacity \in Nat \ {0}

Layers == 0..(NumLayers - 1)
Nodes == Layers \X Experts
NoNode == <<-1, -1>>

VARIABLES
    exec,         \* Node::exec_state: "IDLE" or "FETCHING", the node's lock
    prefetching,  \* Node::is_prefetching
    waiting,      \* Node::pending_dispatches
    gpu,          \* Node::device.is_cuda()
    tasks,        \* unified_queue_[1]: nodes to prefetch
    pool          \* the prefetch thread: where it is, its node, its victims

nodeVars == <<exec, prefetching, waiting, gpu>>
poolVars == <<tasks, pool>>

PoolIdle == [at |-> "idle", node |-> NoNode, todo |-> {}, size |-> 0, victim |-> NoNode]

PoolInit ==
    /\ exec = [n \in Nodes |-> "IDLE"]
    /\ prefetching = [n \in Nodes |-> FALSE]
    /\ waiting = [n \in Nodes |-> 0]
    /\ gpu = [n \in Nodes |-> FALSE]
    /\ tasks = <<>> /\ pool = PoolIdle

(* EnqueuePrefetch and EnqueueTask: an older task of the node is dropped    *)
(* and its lock is opened; a node on the GPU needs no task.                 *)
EnqueuePrefetch(n) ==
    /\ exec' = IF Contains(tasks, n) THEN [exec EXCEPT ![n] = "IDLE"] ELSE exec
    /\ tasks' = SelectSeq(tasks, LAMBDA m : m # n) \o (IF gpu[n] THEN <<>> ELSE <<n>>)
    /\ UNCHANGED <<prefetching, waiting, gpu, pool>>

(* GPUThreadFunc takes a task; RemoveCachedSparseNode looks at what is on   *)
(* the GPU.                                                                 *)
PoolPop ==
    /\ pool.at = "idle" /\ tasks # <<>>
    /\ LET n == Head(tasks)
           onGpu == {m \in Nodes : gpu[m]}
       IN pool' = [PoolIdle EXCEPT !.at = IF gpu[n] THEN "flag" ELSE "evict",
                                   !.node = n, !.todo = onGpu, !.size = Cardinality(onGpu)]
    /\ tasks' = Tail(tasks)
    /\ UNCHANGED nodeVars

(* A victim is locked, or passed over when someone else has it. *)
PoolClaim ==
    /\ pool.at = "evict" /\ pool.size > Capacity - 1
    /\ \E v \in pool.todo :
         IF exec[v] = "IDLE"
         THEN /\ exec' = [exec EXCEPT ![v] = "FETCHING"]
              /\ pool' = [pool EXCEPT !.at = "out", !.victim = v]
         ELSE pool' = [pool EXCEPT !.todo = @ \ {v}] /\ UNCHANGED exec
    /\ UNCHANGED <<prefetching, waiting, gpu, tasks>>

PoolOut ==
    /\ pool.at = "out"
    /\ gpu' = [gpu EXCEPT ![pool.victim] = FALSE]
    /\ exec' = [exec EXCEPT ![pool.victim] = "IDLE"]
    /\ pool' = [pool EXCEPT !.at = "evict", !.size = @ - 1, !.todo = @ \ {pool.victim}, !.victim = NoNode]
    /\ UNCHANGED <<prefetching, waiting, tasks>>

(* There is room; or there is none and the task is given up. *)
PoolEvicted ==
    /\ pool.at = "evict"
    /\ \/ pool.size <= Capacity - 1 /\ pool' = [pool EXCEPT !.at = "flag"]
       \/ pool.size > Capacity - 1 /\ pool.todo = {} /\ pool' = PoolIdle
    /\ UNCHANGED <<nodeVars, tasks>>

(* SetNodeDevice *)
PoolFlag ==
    /\ pool.at = "flag" /\ prefetching' = [prefetching EXCEPT ![pool.node] = TRUE]
    /\ pool' = [pool EXCEPT !.at = "lock"]
    /\ UNCHANGED <<exec, waiting, gpu, tasks>>

PoolLock ==
    /\ pool.at = "lock"
    /\ IF exec[pool.node] = "IDLE"
       THEN /\ exec' = [exec EXCEPT ![pool.node] = "FETCHING"]
            /\ pool' = [pool EXCEPT !.at = "move"] /\ UNCHANGED prefetching
       ELSE /\ prefetching' = [prefetching EXCEPT ![pool.node] = FALSE]
            /\ pool' = PoolIdle /\ UNCHANGED exec
    /\ UNCHANGED <<waiting, gpu, tasks>>

PoolMove ==
    /\ pool.at = "move" /\ gpu' = [gpu EXCEPT ![pool.node] = TRUE]
    /\ pool' = [pool EXCEPT !.at = "unlock"]
    /\ UNCHANGED <<exec, prefetching, waiting, tasks>>

PoolUnlock ==
    /\ pool.at = "unlock" /\ exec' = [exec EXCEPT ![pool.node] = "IDLE"]
    /\ pool' = [pool EXCEPT !.at = "unflag"]
    /\ UNCHANGED <<prefetching, waiting, gpu, tasks>>

PoolUnflag ==
    /\ pool.at = "unflag" /\ prefetching' = [prefetching EXCEPT ![pool.node] = FALSE]
    /\ pool' = PoolIdle
    /\ UNCHANGED <<exec, waiting, gpu, tasks>>

PoolStep ==
    \/ PoolPop \/ PoolClaim \/ PoolOut \/ PoolEvicted \/ PoolFlag \/ PoolLock
    \/ PoolMove \/ PoolUnlock \/ PoolUnflag
=============================================================================
