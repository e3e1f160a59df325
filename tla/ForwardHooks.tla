---------------------------- MODULE ForwardHooks ----------------------------
(***************************************************************************)
(* A forward pass over offloaded weights: the hooks OffloadEngine          *)
(* (runtime/model_offload.py) puts on every module, the prefetch handle    *)
(* behind begin() and end() (core/prefetch/archer_prefetch_handle.cpp) and *)
(* the task pool's GPU thread (core/prefetch/task_scheduler.cpp), which    *)
(* runs concurrently with them.                                            *)
(*                                                                         *)
(* A stage is a node of the topology: the tensors of one layer, moved      *)
(* between host and GPU together.  Leaves are the modules that own         *)
(* tensors, in the order of the forward.                                   *)
(***************************************************************************)
EXTENDS Integers, Sequences, FiniteSets, SequencesExt

CONSTANTS
    Tensors,      \* Tensors[s]: the tensors of stage s
    Leaves,       \* Leaves[i]: the stage and tensors of leaf i, the KV it returns
    DenseRoom,    \* stages the GPU holds before one is moved out
    MaxForwards   \* bound on the forward passes

Stages == DOMAIN Tensors

VARIABLES
    forwards, fpc, leaf,        \* the forward pass
    exec, onGpu, ready, left,   \* per stage: exec_state, device, state = 0, unreleased
    last, execQueue, victims,   \* last_node_, exec_queue_, RemoveCachedDenseNode
    queue, task,                \* unified_queue_[0]; the GPU thread's task
    captured, restored          \* _captured_kv; what the last reload gave

nodeVars == <<exec, onGpu, ready, left, last, execQueue>>
threadVars == <<queue, task>>
kvVars == <<captured, restored>>
forwardVars == <<forwards, fpc, leaf, nodeVars, victims, threadVars, kvVars>>

NoTask == [at |-> "none", stage |-> 0, demand |-> FALSE]
NoVictims == [todo |-> <<>>, size |-> 0]

ForwardInit ==
    /\ forwards = 0 /\ fpc = "idle" /\ leaf = 1
    /\ exec = [s \in Stages |-> "IDLE"] /\ onGpu = [s \in Stages |-> FALSE]
    /\ ready = [s \in Stages |-> TRUE] /\ left = [s \in Stages |-> {}]
    /\ last = 1 /\ execQueue = {} /\ victims = NoVictims
    /\ queue = <<>> /\ task = NoTask
    /\ captured = <<>> /\ restored = <<>>

Stage == Leaves[leaf].stage

-----------------------------------------------------------------------------
(* The KV hooks: a layer's cache is a key and a value, each on a device, or *)
(* something else that is passed on.                                        *)

(* _capture_kv_cache: a copy on the host, with the devices it came from. *)
Capture(kv) ==
    [i \in DOMAIN kv |-> IF kv[i].pair THEN [kv[i] EXCEPT !.at = "cpu"] ELSE kv[i]]

(* _reload_kv_cache: back to those devices. *)
Reload(kv) ==
    [i \in DOMAIN kv |-> IF kv[i].pair THEN [kv[i] EXCEPT !.at = "dev"] ELSE kv[i]]

(* Every hook works on request 0: the pre-hook of the next module takes     *)
(* what the post-hook of the one before captured.                           *)
ReloadHook ==
    /\ captured' = <<>>
    /\ restored' = IF captured = <<>> THEN restored ELSE Reload(captured)

CaptureHook ==
    /\ captured' = IF Leaves[leaf].kv = <<>> THEN captured ELSE Capture(Leaves[leaf].kv)
    /\ UNCHANGED restored

-----------------------------------------------------------------------------
(* The thread that runs the model. *)

Push(t) == queue' = Append(queue, t)
Task(s, demand) == [at |-> "queued", stage |-> s, demand |-> demand]

ForwardBegins ==
    /\ fpc \in {"idle", "raised"} /\ forwards < MaxForwards
    /\ forwards' = forwards + 1 /\ leaf' = 1 /\ fpc' = "stage"
    /\ UNCHANGED <<nodeVars, victims, threadVars, kvVars>>

(* _pre_forward_input_hook of a stage's first leaf: FetchExec. *)
FetchStage ==
    /\ fpc = "stage" /\ fpc' = "begin"
    /\ IF leaf > 1 /\ Leaves[leaf - 1].stage = Stage THEN UNCHANGED <<ready, queue>>
       ELSE IF onGpu[Stage] THEN ready' = [ready EXCEPT ![Stage] = TRUE] /\ UNCHANGED queue
       ELSE Push(Task(Stage, FALSE)) /\ UNCHANGED ready
    /\ UNCHANGED <<forwards, leaf, exec, onGpu, left, last, execQueue, victims, task, kvVars>>

(* Mutant: begin() claims the stage every time. *)
BeginAlways ==
    /\ fpc = "begin" /\ ReloadHook
    /\ fpc' = "acquire" /\ ready' = [ready EXCEPT ![Stage] = FALSE]
    /\ left' = [left EXCEPT ![Stage] = Tensors[Stage]]
    /\ UNCHANGED <<forwards, leaf, exec, onGpu, last, execQueue, victims, threadVars>>

(* _pre_forward_module_hook: begin() takes the stage, unless a tensor of it *)
(* is still to be released.                                                 *)
Begin ==
    /\ fpc = "begin" /\ ReloadHook
    /\ IF Leaves[leaf].tensors = {} \/ left[Stage] # {}
       THEN fpc' = "body" /\ UNCHANGED <<ready, left>>
       ELSE /\ fpc' = "acquire" /\ ready' = [ready EXCEPT ![Stage] = FALSE]
            /\ left' = [left EXCEPT ![Stage] = Tensors[Stage]]
    /\ UNCHANGED <<forwards, leaf, exec, onGpu, last, execQueue, victims, threadVars>>

(* Mutant: the compare-and-exchange is a store. *)
AcquireBusy ==
    /\ fpc = "acquire" /\ exec' = [exec EXCEPT ![Stage] = "FETCHING"]
    /\ LET there == SetToSortSeq({s \in Stages : onGpu[s]}, <)
       IN victims' = IF onGpu[Stage] THEN NoVictims
                     ELSE [todo |-> there, size |-> Len(there)]
    /\ fpc' = "evict"
    /\ UNCHANGED <<forwards, leaf, onGpu, ready, left, last, execQueue, threadVars, kvVars>>

(* It spins until the stage is idle, then lists the stages on the GPU. *)
Acquire ==
    /\ fpc = "acquire" /\ exec[Stage] = "IDLE" /\ exec' = [exec EXCEPT ![Stage] = "FETCHING"]
    /\ LET there == SetToSortSeq({s \in Stages : onGpu[s]}, <)
       IN victims' = IF onGpu[Stage] THEN NoVictims
                     ELSE [todo |-> there, size |-> Len(there)]
    /\ fpc' = "evict"
    /\ UNCHANGED <<forwards, leaf, onGpu, ready, left, last, execQueue, threadVars, kvVars>>

(* RemoveCachedDenseNode claims an idle stage and moves it out. *)
Evict ==
    /\ fpc = "evict" /\ victims.size > DenseRoom /\ victims.todo # <<>>
    /\ IF exec[Head(victims.todo)] = "IDLE"
       THEN exec' = [exec EXCEPT ![Head(victims.todo)] = "FETCHING"] /\ fpc' = "moveout"
            /\ UNCHANGED victims
       ELSE victims' = [victims EXCEPT !.todo = Tail(@)] /\ UNCHANGED <<exec, fpc>>
    /\ UNCHANGED <<forwards, leaf, onGpu, ready, left, last, execQueue, threadVars, kvVars>>

MoveOut ==
    /\ fpc = "moveout" /\ fpc' = "evict"
    /\ LET v == Head(victims.todo)
       IN onGpu' = [onGpu EXCEPT ![v] = FALSE] /\ exec' = [exec EXCEPT ![v] = "IDLE"]
    /\ victims' = [todo |-> Tail(victims.todo), size |-> victims.size - 1]
    /\ UNCHANGED <<forwards, leaf, ready, left, last, execQueue, threadVars, kvVars>>

(* StartExec drops the queued tasks of this stage and of earlier ones. *)
StartExec ==
    /\ fpc = "evict" /\ ~(victims.size > DenseRoom /\ victims.todo # <<>>)
    /\ fpc' = "wait" /\ victims' = NoVictims
    /\ LET kept == SelectSeq(queue, LAMBDA t : t.stage > Stage)
       IN IF onGpu[Stage] \/ Stage \in execQueue
          THEN queue' = kept /\ ready' = [ready EXCEPT ![Stage] = TRUE]
          ELSE queue' = Append(kept, Task(Stage, TRUE)) /\ UNCHANGED ready
    /\ execQueue' = execQueue \cup {Stage}
    /\ UNCHANGED <<forwards, leaf, exec, onGpu, left, last, task, kvVars>>

Waited ==
    /\ fpc = "wait" /\ ready[Stage] /\ fpc' = "body"
    /\ UNCHANGED <<forwards, leaf, nodeVars, victims, threadVars, kvVars>>

(* The module raises: no post-hook runs, and the serving engine goes on to  *)
(* its next step.                                                           *)
BodyRaises ==
    /\ fpc = "body" /\ fpc' = "raised"
    /\ UNCHANGED <<forwards, leaf, nodeVars, victims, threadVars, kvVars>>

(* StopExec of the stages in S, and their exec_state back to IDLE. *)
Stop(S) ==
    /\ exec' = [s \in Stages |-> IF s \in S THEN "IDLE" ELSE exec[s]]
    /\ ready' = [s \in Stages |-> s \in S \/ ready[s]]
    /\ execQueue' = execQueue \ S

(* _post_forward_module_hook: end() releases the leaf's tensors, the stage  *)
(* once none is left, and the stage released before it in any case when     *)
(* that is another one.                                                     *)
End ==
    /\ fpc = "body"
    /\ IF Leaves[leaf].tensors = {} THEN UNCHANGED <<left, exec, ready, execQueue, last>>
       ELSE LET rest == left[Stage] \ Leaves[leaf].tensors
                before == IF last # Stage /\ left[last] # {} THEN {last} ELSE {}
                done == before \cup (IF rest = {} THEN {Stage} ELSE {})
            IN /\ left' = [s \in Stages |-> IF s = Stage THEN rest
                                            ELSE IF s \in before THEN {} ELSE left[s]]
               /\ Stop(done) /\ last' = Stage
    /\ CaptureHook
    /\ IF leaf = Len(Leaves) THEN fpc' = "idle" /\ UNCHANGED leaf
                             ELSE fpc' = "stage" /\ leaf' = leaf + 1
    /\ UNCHANGED <<forwards, onGpu, victims, threadVars>>

ForwardStep ==
    \/ FetchStage \/ Begin \/ Acquire \/ Evict \/ MoveOut \/ StartExec \/ Waited \/ End

-----------------------------------------------------------------------------
(* GPUThreadFunc: one task at a time; a fetch that is not on demand is      *)
(* dropped when the experts leave no room, or when the stage is busy.       *)
GpuPop ==
    /\ task = NoTask /\ queue # <<>>
    /\ queue' = SelectSeq(queue, LAMBDA t : t.stage # Head(queue).stage)
    /\ \/ task' = [Head(queue) EXCEPT !.at = "popped"]
       \/ ~Head(queue).demand /\ ~onGpu[Head(queue).stage] /\ task' = NoTask
    /\ UNCHANGED <<forwards, fpc, leaf, nodeVars, victims, kvVars>>

GpuClaim ==
    /\ task.at = "popped"
    /\ IF task.demand \/ exec[task.stage] = "IDLE"
       THEN /\ task' = [task EXCEPT !.at = "moving"]
            /\ exec' = IF task.demand THEN exec ELSE [exec EXCEPT ![task.stage] = "FETCHING"]
       ELSE task' = NoTask /\ UNCHANGED exec
    /\ UNCHANGED <<forwards, fpc, leaf, onGpu, ready, left, last, execQueue, victims, queue, kvVars>>

GpuMove ==
    /\ task.at = "moving" /\ task' = NoTask
    /\ onGpu' = [onGpu EXCEPT ![task.stage] = TRUE]
    /\ IF task.demand THEN ready' = [ready EXCEPT ![task.stage] = TRUE] /\ UNCHANGED exec
                      ELSE exec' = [exec EXCEPT ![task.stage] = "IDLE"] /\ UNCHANGED ready
    /\ UNCHANGED <<forwards, fpc, leaf, left, last, execQueue, victims, queue, kvVars>>

GpuThread == GpuPop \/ GpuClaim \/ GpuMove

-----------------------------------------------------------------------------
(* A module finds its tensors.  It computes only with its stage on the GPU  *)
(* and claimed, so that neither the task pool nor the eviction of another   *)
(* stage moves its weights, also after a forward that raised half way; and  *)
(* a KV cache that was offloaded comes back as it was captured, every half  *)
(* on the device it came from.                                              *)
ModulesFindTheirTensors ==
    /\ fpc = "body" /\ Leaves[leaf].tensors # {} => onGpu[Stage] /\ exec[Stage] = "FETCHING"
    /\ restored # <<>> => \E i \in DOMAIN Leaves : restored = Leaves[i].kv

(* No claim is lost: between two forward passes the claimed stages are the  *)
(* ones with tensors still to release, and after one that ran to its end    *)
(* only the stage it released last can be one of them, whatever raised      *)
(* before it.                                                               *)
NoClaimLost ==
    LET claimed == {s \in Stages : left[s] # {}}
    IN /\ fpc \in {"idle", "raised"} /\ task = NoTask =>
             execQueue = claimed /\ \A s \in Stages : exec[s] = "FETCHING" <=> s \in claimed
       /\ fpc = "idle" => claimed \subseteq {last}
=============================================================================
