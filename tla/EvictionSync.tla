---------------------------- MODULE EvictionSync ----------------------------
(***************************************************************************)
(* EvictionSyncAdapter (serving/eviction_sync.py): engine, handlers and KV *)
(* cache report the end of a request, from their own threads; ContextPilot *)
(* is told once.  The middleware's call takes its own lock, outside the    *)
(* adapter's.                                                              *)
(***************************************************************************)
EXTENDS Integers, Sequences, FiniteSets, FiniteSetsExt

CONSTANTS
    Reports,      \* [id, request, event]: each is made once, by a thread of its own
    HasMiddleware \* what the adapter was built with: a subset of BOOLEAN

ASSUME SyncAssumption == HasMiddleware \subseteq BOOLEAN

VARIABLES
    attached,     \* _cp_middleware is not None
    thread,       \* per report: where its thread is
    evicted,      \* _evicted_request_ids
    incoming, removed, notFound,
    counted,      \* _event_counters
    told          \* per request: calls of on_request_complete that were made

syncVars == <<attached, thread, evicted, incoming, removed, notFound, counted, told>>

Terminal(r) == r.event # "swapped"
RequestIds == {r.request : r \in Reports}

SyncInit ==
    /\ attached \in HasMiddleware /\ thread = [r \in Reports |-> "new"] /\ evicted = {}
    /\ incoming = 0 /\ removed = 0 /\ notFound = 0
    /\ counted = [e \in {"completed", "aborted", "freed", "swapped"} |-> 0]
    /\ told = [q \in RequestIds |-> 0]

(* _handle_event *)
HandleEvent(r) ==
    /\ thread[r] = "new" /\ counted' = [counted EXCEPT ![r.event] = @ + 1]
    /\ thread' = [thread EXCEPT ![r] = IF Terminal(r) THEN "evict" ELSE "done"]
    /\ UNCHANGED <<attached, evicted, incoming, removed, notFound, told>>

(* Mutant: an abort counts as a duplicate, as if its blocks had been freed. *)
EvictRequestUnlessAborted(r) ==
    /\ thread[r] = "evict" /\ incoming' = incoming + 1
    /\ IF r.request \in evicted \/ r.event = "aborted"
       THEN notFound' = notFound + 1 /\ thread' = [thread EXCEPT ![r] = "done"] /\ UNCHANGED <<evicted, removed>>
       ELSE /\ evicted' = evicted \cup {r.request} /\ UNCHANGED notFound
            /\ removed' = removed + (IF attached THEN 1 ELSE 0)
            /\ thread' = [thread EXCEPT ![r] = IF attached THEN "notify" ELSE "done"]
    /\ UNCHANGED <<attached, counted, told>>

(* _evict_request, under the adapter's lock *)
EvictRequest(r) ==
    /\ thread[r] = "evict" /\ incoming' = incoming + 1
    /\ IF r.request \in evicted
       THEN notFound' = notFound + 1 /\ thread' = [thread EXCEPT ![r] = "done"] /\ UNCHANGED <<evicted, removed>>
       ELSE /\ evicted' = evicted \cup {r.request} /\ UNCHANGED notFound
            /\ removed' = removed + (IF attached THEN 1 ELSE 0)
            /\ thread' = [thread EXCEPT ![r] = IF attached THEN "notify" ELSE "done"]
    /\ UNCHANGED <<attached, counted, told>>

(* ... and the call of the middleware after it *)
Notify(r) ==
    /\ thread[r] = "notify" /\ thread' = [thread EXCEPT ![r] = "done"]
    /\ told' = [told EXCEPT ![r.request] = @ + 1]
    /\ UNCHANGED <<attached, evicted, incoming, removed, notFound, counted>>

SyncStep(r) == HandleEvent(r) \/ EvictRequest(r) \/ Notify(r)
SyncNext == \E r \in Reports : SyncStep(r)

-----------------------------------------------------------------------------
(* ContextPilot is told of a request's end at most once, however many       *)
(* threads report it, and never for a request that was only swapped out.    *)
ToldOnce ==
    \A q \in RequestIds :
        /\ told[q] <= 1
        /\ told[q] = 1 => \E r \in Reports : r.request = q /\ Terminal(r) /\ thread[r] # "new"

(* Each report that reached the adapter was an eviction or a duplicate, and *)
(* an eviction counts as removed if there is a middleware to tell.          *)
EvictionsCounted ==
    /\ incoming = notFound + Cardinality(evicted)
    /\ removed = (IF attached THEN Cardinality(evicted) ELSE 0)

(* The counters tell the same story: what was removed was told, or is about *)
(* to be.                                                                   *)
CountersAgree ==
    /\ EvictionsCounted
    /\ removed = MapThenSumSet(LAMBDA q : told[q], RequestIds)
                 + Cardinality({r \in Reports : thread[r] = "notify"})

(* An end that is reported is passed on, exactly once, even if the report   *)
(* that was passed on is not the one that came first; and the adapter's     *)
(* counters always agree with what was passed on.                           *)
EndIsToldOnce ==
    /\ []ToldOnce
    /\ []CountersAgree
    /\ \A r \in Reports : (attached /\ Terminal(r) /\ thread[r] = "evict") ~> (told[r.request] = 1)
=============================================================================
