---------------------------- MODULE OffloadEngine ---------------------------
(***************************************************************************)
(* The life of OffloadEngine (runtime/model_offload.py) in one process     *)
(* after another: load a model inside "with engine.init(...)"              *)
(* (OffloadCache, LibraryPatches), run forward passes on it (ForwardHooks),*)
(* load the next one in the same process, or die and be started again.     *)
(***************************************************************************)
EXTENDS OffloadCache, LibraryPatches, ForwardHooks, ExpertWiring

vars == <<cacheVars, patchVars, forwardVars>>

Init == CacheInit /\ PatchInit /\ ForwardInit

(* MoE._configure: a new engine, __enter__, the start of from_pretrained. *)
Load(m) ==
    /\ Start(m) /\ EnterPatches
    /\ UNCHANGED forwardVars

Loading ==
    /\ LoadStep
    /\ IF pc \in {"read", "validate"} /\ pc' # "raise" THEN UnwrapInit ELSE UNCHANGED patchVars
    /\ UNCHANGED forwardVars

(* The with block ends: the model is there, or the exception goes on. *)
Leave ==
    /\ pc \in {"exit", "raise"} /\ ExitPatches
    /\ pc' = IF pc = "exit" THEN "ready" ELSE "out"
    /\ UNCHANGED <<disk, loadVars, histVars, forwardVars>>

Forward == pc = "ready" /\ (ForwardStep \/ GpuThread) /\ UNCHANGED <<cacheVars, patchVars>>

ForwardStarts == pc = "ready" /\ ForwardBegins /\ UNCHANGED <<cacheVars, patchVars>>
ForwardRaises == pc = "ready" /\ BodyRaises /\ UNCHANGED <<cacheVars, patchVars>>

CleanUp ==
    /\ pc \in {"out", "ready"} /\ attr["blocks"] = 1 /\ CleanUpPatches
    /\ UNCHANGED <<cacheVars, forwardVars>>

ForwardReset ==
    /\ forwards' = 0 /\ fpc' = "idle" /\ leaf' = 1
    /\ exec' = [s \in Stages |-> "IDLE"] /\ onGpu' = [s \in Stages |-> FALSE]
    /\ ready' = [s \in Stages |-> TRUE] /\ left' = [s \in Stages |-> {}]
    /\ last' = 1 /\ execQueue' = {} /\ victims' = NoVictims
    /\ queue' = <<>> /\ task' = NoTask
    /\ captured' = <<>> /\ restored' = <<>>

(* The model is dropped and the process goes on. *)
Unload ==
    /\ pc = "ready" /\ fpc \in {"idle", "raised"} /\ task = NoTask /\ queue = <<>>
    /\ pc' = "out" /\ ForwardReset
    /\ UNCHANGED <<disk, loadVars, histVars, patchVars>>

Crash ==
    /\ Dies /\ ForwardReset
    /\ attr' = Original /\ old' = Original

Next ==
    \/ \E m \in Models : Load(m)
    \/ Loading \/ Leave \/ Forward \/ ForwardStarts \/ ForwardRaises
    \/ CleanUp \/ Unload \/ Crash

(* The process takes its next step, and so does the GPU thread; nothing     *)
(* forces a load, a forward pass, a clean_up or a crash.                    *)
Fairness ==
    /\ WF_vars(Loading) /\ WF_vars(Leave)
    /\ WF_vars(pc = "ready" /\ ForwardStep /\ UNCHANGED <<cacheVars, patchVars>>)
    /\ WF_vars(pc = "ready" /\ GpuThread /\ UNCHANGED <<cacheVars, patchVars>>)

Spec == Init /\ [][Next]_vars /\ Fairness

-----------------------------------------------------------------------------


(* No module waits for ever for its stage: a forward pass ends, whatever    *)
(* raised or was left claimed before it, because between two passes no      *)
(* claim is lost.  And a load that began ends, with a model, an exception   *)
(* or the process.                                                          *)
ForwardEnds ==
    /\ (fpc \notin {"idle", "raised"}) ~> (fpc \in {"idle", "raised"})
    /\ []NoClaimLost
    /\ (pc \notin {"out", "ready"}) ~> (pc \in {"out", "ready"})
=============================================================================
