------------------------- MODULE EvictionSyncProofs -------------------------
(***************************************************************************)
(* ToldOnce and EvictionsCounted for every set of reports and every number *)
(* of threads.  The lock is released before the middleware is called, so   *)
(* the argument is about the threads between the two: each of them put its *)
(* request among the evicted ones itself, no two have the same request,    *)
(* and nobody was told of it yet.                                          *)
(***************************************************************************)
EXTENDS EvictionSync, FiniteSetTheorems, TLAPS

SyncSpec == SyncInit /\ [][SyncNext]_syncVars

SyncTyped ==
    /\ attached \in BOOLEAN
    /\ thread \in [Reports -> {"new", "evict", "notify", "done"}]
    /\ told \in [RequestIds -> Nat]
    /\ IsFiniteSet(evicted) /\ incoming \in Nat /\ removed \in Nat /\ notFound \in Nat

(* A thread that is about to tell holds the only right to. *)
Committed ==
    /\ \A r \in Reports : thread[r] \in {"evict", "notify"} => Terminal(r)
    /\ \A r \in Reports : thread[r] = "notify" => r.request \in evicted /\ told[r.request] = 0
    /\ \A r, s \in Reports :
         thread[r] = "notify" /\ thread[s] = "notify" /\ r.request = s.request => r = s
    /\ \A q \in RequestIds : told[q] # 0 => q \in evicted

SyncInv == SyncTyped /\ Committed /\ ToldOnce /\ EvictionsCounted

-----------------------------------------------------------------------------
LEMMA SyncInitInv == SyncInit => SyncInv
  <1> SUFFICES ASSUME SyncInit PROVE SyncInv
    OBVIOUS
  <1>1. Cardinality({}) = 0 /\ IsFiniteSet({})
    BY FS_EmptySet
  <1>2. SyncTyped
    BY <1>1, SyncAssumption DEF SyncInit, SyncTyped
  <1>3. Committed /\ ToldOnce
    BY DEF SyncInit, Committed, ToldOnce
  <1>4. EvictionsCounted
    BY <1>1 DEF SyncInit, EvictionsCounted
  <1> QED
    BY <1>2, <1>3, <1>4 DEF SyncInv

LEMMA HandleEventInv == ASSUME SyncInv, NEW r \in Reports, HandleEvent(r) PROVE SyncInv'
  <1> USE DEF SyncInv
  <1>1. SyncTyped'
    BY DEF SyncTyped, HandleEvent
  <1>2. \A s \in Reports : s # r => thread'[s] = thread[s]
    BY DEF SyncTyped, HandleEvent
  <1>3. thread'[r] \in {"evict", "done"} /\ (thread'[r] = "evict" => Terminal(r))
    BY DEF SyncTyped, HandleEvent
  <1>4. Committed'
    BY <1>2, <1>3 DEF Committed, HandleEvent, Terminal
  <1>5. ToldOnce'
    BY <1>2, <1>3 DEF ToldOnce, HandleEvent, Terminal
  <1>6. EvictionsCounted'
    BY DEF EvictionsCounted, HandleEvent
  <1> QED
    BY <1>1, <1>4, <1>5, <1>6

LEMMA EvictRequestInv == ASSUME SyncInv, NEW r \in Reports, EvictRequest(r) PROVE SyncInv'
  <1> USE DEF SyncInv
  <1>1. \A s \in Reports : s # r => thread'[s] = thread[s]
    BY DEF SyncTyped, EvictRequest
  <1>2. Terminal(r) /\ r.request \in RequestIds
    BY DEF Committed, EvictRequest, RequestIds
  <1>3. CASE r.request \in evicted
    <2>1. thread'[r] = "done" /\ thread' = [thread EXCEPT ![r] = "done"]
      BY <1>3 DEF SyncTyped, EvictRequest
    <2>2. SyncTyped'
      BY <1>3, <2>1 DEF SyncTyped, EvictRequest
    <2>3. Committed'
      BY <1>1, <1>3, <2>1 DEF Committed, EvictRequest, Terminal
    <2>4. ToldOnce'
      BY <1>1, <1>3, <2>1 DEF ToldOnce, EvictRequest, Terminal
    <2>5. Cardinality(evicted) \in Nat
      BY FS_CardinalityType DEF SyncTyped
    <2>6. EvictionsCounted'
      BY <1>3, <2>5 DEF EvictionsCounted, EvictRequest, SyncTyped
    <2> QED
      BY <2>2, <2>3, <2>4, <2>6
  <1>4. CASE r.request \notin evicted
    <2>1. evicted' = evicted \cup {r.request} /\ told' = told /\ attached' = attached
      BY <1>4 DEF EvictRequest
    <2>2. thread' = [thread EXCEPT ![r] = IF attached THEN "notify" ELSE "done"]
      BY <1>4 DEF EvictRequest
    <2>3. thread'[r] \in {"notify", "done"}
      BY <2>2 DEF SyncTyped
    <2>4. /\ IsFiniteSet(evicted') /\ Cardinality(evicted) \in Nat
          /\ Cardinality(evicted') = Cardinality(evicted) + 1
      BY <1>4, <2>1, FS_AddElement, FS_CardinalityType DEF SyncTyped
    <2>5. SyncTyped'
      BY <1>4, <2>1, <2>2, <2>4 DEF SyncTyped, EvictRequest
    <2>6. told[r.request] = 0 /\ \A s \in Reports : thread[s] = "notify" => s.request # r.request
      BY <1>2, <1>4 DEF Committed
    <2>7. Committed'
      BY <1>1, <1>2, <2>1, <2>3, <2>6 DEF Committed, Terminal
    <2>8. ToldOnce'
      BY <1>1, <2>1, <2>3 DEF ToldOnce, Terminal
    <2>9. EvictionsCounted'
      BY <1>4, <2>4 DEF EvictionsCounted, EvictRequest, SyncTyped
    <2> QED
      BY <2>5, <2>7, <2>8, <2>9
  <1> QED
    BY <1>3, <1>4

LEMMA NotifyInv == ASSUME SyncInv, NEW r \in Reports, Notify(r) PROVE SyncInv'
  <1> USE DEF SyncInv
  <1>1. r.request \in RequestIds /\ Terminal(r) /\ r.request \in evicted /\ told[r.request] = 0
    BY DEF Committed, Notify, RequestIds
  <1>2. thread'[r] = "done" /\ \A s \in Reports : s # r => thread'[s] = thread[s]
    BY DEF SyncTyped, Notify
  <1>3. told'[r.request] = 1 /\ \A q \in RequestIds : q # r.request => told'[q] = told[q]
    BY <1>1 DEF SyncTyped, Notify
  <1>4. SyncTyped'
    BY <1>1 DEF SyncTyped, Notify
  <1>5. \A s \in Reports : s # r /\ thread[s] = "notify" => s.request # r.request /\ s.request \in RequestIds
    BY DEF Committed, Notify, RequestIds
  <1>6. Committed'
    BY <1>1, <1>2, <1>3, <1>5 DEF Committed, Notify, Terminal
  <1>7. ToldOnce'
    <2> SUFFICES ASSUME NEW q \in RequestIds
                 PROVE  /\ told'[q] <= 1
                        /\ told'[q] = 1 => \E s \in Reports : s.request = q /\ Terminal(s) /\ thread'[s] # "new"
      BY DEF ToldOnce, Terminal, RequestIds
    <2>1. CASE q = r.request
      BY <1>1, <1>2, <1>3, <2>1
    <2>2. CASE q # r.request
      BY <1>2, <1>3, <2>2 DEF ToldOnce
    <2> QED
      BY <2>1, <2>2
  <1>8. EvictionsCounted'
    BY DEF EvictionsCounted, Notify
  <1> QED
    BY <1>4, <1>6, <1>7, <1>8

(* However many threads report the end of a request, and whatever they      *)
(* interleave between _evict_request's lock and the middleware's call,      *)
(* ContextPilot is told of it at most once, only of an end, and the         *)
(* adapter's counters add up.                                               *)
THEOREM EvictionSoundness == SyncSpec => []ToldOnce /\ []EvictionsCounted
  <1>1. SyncInv /\ [SyncNext]_syncVars => SyncInv'
    <2> SUFFICES ASSUME SyncInv, [SyncNext]_syncVars PROVE SyncInv'
      OBVIOUS
    <2>1. CASE SyncNext
      BY <2>1, HandleEventInv, EvictRequestInv, NotifyInv DEF SyncNext, SyncStep
    <2>2. CASE UNCHANGED syncVars
      BY <2>2 DEF syncVars, SyncInv, SyncTyped, Committed, ToldOnce, EvictionsCounted, Terminal
    <2> QED
      BY <2>1, <2>2
  <1>2. SyncInv => ToldOnce /\ EvictionsCounted
    BY DEF SyncInv
  <1> QED
    BY <1>1, <1>2, SyncInitInv, PTL DEF SyncSpec
=============================================================================
