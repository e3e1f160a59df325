--------------------------- MODULE ContextPilotKV ---------------------------
(***************************************************************************)
(* ContextPilotKVManager (serving/cp_kv_interface.py): which blocks of a   *)
(* request ContextPilot may reuse, and in which order requests are given   *)
(* blocks.  The middleware's hooks may be missing, raise, or answer        *)
(* anything; they never change what the manager itself records.            *)
(***************************************************************************)
EXTENDS Integers, Sequences, FiniteSets, SequencesExt, FiniteSetsExt

CONSTANTS
    KVRequests, Hashes,   \* requests; block hashes
    Scores                \* what predict_prefix_reuse may answer, in percent

VARIABLES
    blocksOf,   \* _request_to_blocks
    held,       \* the blocks each request was last given and has not freed
    asked,      \* the requests that waited at the last get_allocation_priority
    order       \* its answer

kvVars == <<blocksOf, held, asked, order>>

KVInit ==
    /\ blocksOf = <<>> /\ held = [r \in KVRequests |-> {}] /\ asked = <<>> /\ order = <<>>

Clamp01(x) == IF x < 0 THEN 0 ELSE IF x > 100 THEN 100 ELSE x

(* predict_prefix_reuse: no predictor, an exception or an answer that is no *)
(* number is 0.                                                             *)
PredictPrefixReuse == {0} \cup {Clamp01(x) : x \in Scores}

(* get_cp_cached_blocks, where the middleware has no answer of its own *)
CachedBlocks(r) == IF r \in DOMAIN blocksOf THEN blocksOf[r] ELSE <<>>

BlockLists == {s \in SeqOf(Hashes, Cardinality(Hashes)) : IsInjective(s)}

NotifyBlocksAllocated(r, bs) ==
    /\ blocksOf' = [q \in DOMAIN blocksOf \cup {r} |-> IF q = r THEN bs ELSE blocksOf[q]]
    /\ held' = [held EXCEPT ![r] = ToSet(bs)] /\ UNCHANGED <<asked, order>>


Remaining(current, freed) == SelectSeq(current, LAMBDA h : h \notin freed)

NotifyBlocksFreed(r, freed) ==
    LET left == Remaining(CachedBlocks(r), freed)
    IN /\ blocksOf' = [q \in (DOMAIN blocksOf \ {r}) \cup (IF left = <<>> THEN {} ELSE {r}) |->
                          IF q = r THEN left ELSE blocksOf[q]]
       /\ held' = [held EXCEPT ![r] = @ \ freed] /\ UNCHANGED <<asked, order>>

(* The ranker's answer, without what was not asked for and without repeats; *)
(* then those it left out.                                                  *)
Ranked(requests, ranked) ==
    LET known == FoldLeft(LAMBDA out, r : IF r \in ToSet(requests) \ ToSet(out) THEN Append(out, r) ELSE out,
                          <<>>, ranked)
    IN known \o SelectSeq(requests, LAMBDA r : r \notin ToSet(known))

(* sorted(..., reverse=True) is stable. *)
ByScore(requests, score) ==
    LET before(i, j) == score[requests[i]] > score[requests[j]] \/ (score[requests[i]] = score[requests[j]] /\ i < j)
        p == SetToSortSeq(DOMAIN requests, before)
    IN [i \in DOMAIN p |-> requests[p[i]]]

Queues == {s \in SeqOf(KVRequests, Cardinality(KVRequests)) : IsInjective(s)}

GetAllocationPriority(requests) ==
    /\ \/ \E ranked \in SeqOf(KVRequests \cup {"other"}, Cardinality(KVRequests)) : order' = Ranked(requests, ranked)
       \/ \E score \in [KVRequests -> PredictPrefixReuse] : order' = ByScore(requests, score)
    /\ asked' = requests /\ UNCHANGED <<blocksOf, held>>

BlocksNext ==
    \/ \E r \in KVRequests, bs \in BlockLists : NotifyBlocksAllocated(r, bs)
    \/ \E r \in KVRequests, freed \in SUBSET Hashes : NotifyBlocksFreed(r, freed)

PriorityNext == \E q \in Queues : GetAllocationPriority(q)

-----------------------------------------------------------------------------
=============================================================================
