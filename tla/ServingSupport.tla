--------------------------- MODULE ServingSupport ---------------------------
(***************************************************************************)
(* The parts that stand around the engines and share no state with one     *)
(* another.  A behaviour is a behaviour of one of them; the others stay as *)
(* they were built.                                                        *)
(***************************************************************************)
EXTENDS CircuitBreaker, PrefixCache, IncrementalWriter, EvictionSync, ContextPilot, ContextPilotKV,
        StreamDelivery, TransferScheduler

VARIABLE part

Parts == {"breaker", "prefix", "writer", "sync", "cp", "blocks", "priority", "stream", "transfer"}

vars == <<part, breakerVars, prefixVars, writerVars, syncVars, cpVars, kvVars, streamVars, tsVars>>

Init ==
    /\ part \in Parts
    /\ BreakerInit /\ PrefixInit /\ WriterInit /\ SyncInit /\ CPInit /\ KVInit /\ StreamInit /\ TSInit
    /\ part = "sync" \/ attached
    /\ part = "cp" \/ (process = [env |-> TRUE, debug |-> TRUE, installed |-> TRUE] /\ enabled)

Next ==
    /\ UNCHANGED part
    /\ \/ part = "breaker" /\ BreakerNext
       \/ part # "breaker" /\ UNCHANGED breakerVars
    /\ \/ part = "prefix" /\ PrefixNext
       \/ part # "prefix" /\ UNCHANGED prefixVars
    /\ \/ part = "writer" /\ WriterNext
       \/ part # "writer" /\ UNCHANGED writerVars
    /\ \/ part = "sync" /\ SyncNext
       \/ part # "sync" /\ UNCHANGED syncVars
    /\ \/ part = "cp" /\ CPNext
       \/ part # "cp" /\ UNCHANGED cpVars
    /\ \/ part = "blocks" /\ BlocksNext
       \/ part = "priority" /\ PriorityNext
       \/ part \notin {"blocks", "priority"} /\ UNCHANGED kvVars
    /\ \/ part = "stream" /\ StreamNext
       \/ part # "stream" /\ UNCHANGED streamVars
    /\ \/ part = "transfer" /\ TSNext
       \/ part # "transfer" /\ UNCHANGED tsVars

(* Time passes, callers keep asking and their calls end; a thread that      *)
(* began to report goes on; the engine goes on generating, the event loop   *)
(* runs the response, and a thread that can leave next() does; the transfer *)
(* worker runs, and every handler returns or raises.                        *)
Fairness ==
    /\ WF_breakerVars(part = "breaker" /\ Tick)
    /\ \A c \in Callers : WF_breakerVars(part = "breaker" /\ Ask(c)) /\ WF_breakerVars(part = "breaker" /\ EndsWell(c))
    /\ \A r \in Reports : WF_syncVars(part = "sync" /\ (EvictRequest(r) \/ Notify(r)))
    /\ WF_streamVars(part = "stream" /\ PushToken)
    /\ WF_streamVars(part = "stream" /\ ResponseStep)
    /\ WF_streamVars(part = "stream" /\ ThreadStep)
    /\ WF_tsVars(part = "transfer" /\ WorkerStep)

Spec == Init /\ [][Next]_vars /\ Fairness
=============================================================================
