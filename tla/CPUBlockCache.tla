--------------------------- MODULE CPUBlockCache ---------------------------
(***************************************************************************)
(* CPUBlockCache (memory/cpu_block_cache.py): CPU blocks of a BlockPool    *)
(* keyed by block hash, with a replacement policy.  Every operation holds  *)
(* the cache's lock from beginning to end, so it is one step.              *)
(*                                                                         *)
(* Under ARCPolicy a put may drop an entry that the cache is not told of:  *)
(* the block of such an entry stays allocated and is found by no load.     *)
(***************************************************************************)
EXTENDS BlockPool, OffloadingPolicy, FiniteSets

CONSTANTS
    Keys,        \* block hashes
    NumBlocks,   \* blocks of the CPU pool
    Capacities   \* the policy's capacity is one of these

VARIABLES
    pool,      \* _cpu_pool
    policy,    \* _policy
    blockOf,   \* _hash_to_cpu_block, 0 for no entry
    hashOf     \* _cpu_id_to_hash, "none" for no entry

cacheVars == <<pool, policy, blockOf, hashOf>>

Init ==
    /\ pool = NewPool(NumBlocks, {})
    /\ \E kind \in {"LRU", "ARC"}, cap \in Capacities : policy = NewPolicy(kind, cap, Keys)
    /\ blockOf = [k \in Keys |-> 0]
    /\ hashOf = [b \in 1 .. NumBlocks |-> "none"]

(* What the operations hand from one step of theirs to the next. *)
Cache == [pool |-> pool, policy |-> policy, blockOf |-> blockOf, hashOf |-> hashOf]

Become(c) ==
    /\ pool' = c.pool /\ policy' = c.policy
    /\ blockOf' = c.blockOf /\ hashOf' = c.hashOf

Release(p, b) == IF b # 0 /\ p.ref[b] > 0 THEN FreeBlock(p, b) ELSE p

(* One eviction: the victim leaves both maps and its block is freed. *)
EvictOne(c) ==
    LET k == Victim(c.policy) IN
    [pool    |-> Release(c.pool, c.blockOf[k]),
     policy  |-> Evict(c.policy),
     blockOf |-> [c.blockOf EXCEPT ![k] = 0],
     hashOf  |-> [c.hashOf EXCEPT ![c.policy.val[k]] = "none"]]

(* _evict_if_needed_locked; the policy is never more than full. *)
EvictIfNeeded(c) ==
    FoldLeft(LAMBDA d, i : IF Len(Held(d.policy)) >= d.policy.cap THEN EvictOne(d) ELSE d,
             c, [i \in 1 .. Len(Held(c.policy)) |-> i])

StoreHit(k) ==
    /\ blockOf[k] # 0
    /\ policy' = Get(policy, k)
    /\ UNCHANGED <<pool, blockOf, hashOf>>

(* store of a hash the cache does not have: None when no block is free,    *)
(* and what was evicted on the way stays evicted.                          *)
StoreMiss(k) ==
    LET c == EvictIfNeeded(Cache)
        b == Head(c.pool.free)
    IN /\ blockOf[k] = 0
       /\ Become(IF c.pool.free = <<>> THEN c
                 ELSE [pool    |-> AllocateBlocks(c.pool, 1),
                       policy  |-> Put(c.policy, k, b),
                       blockOf |-> [c.blockOf EXCEPT ![k] = b],
                       hashOf  |-> [c.hashOf EXCEPT ![b] = k]])

(* load: a block only if the policy and the map agree on it. *)
Loaded(k) == IF Holds(policy, k) /\ blockOf[k] = policy.val[k] THEN blockOf[k] ELSE 0

Load(k) ==
    /\ policy' = Get(policy, k)
    /\ UNCHANGED <<pool, blockOf, hashOf>>

EvictIfNeededCall == Become(EvictIfNeeded(Cache))

(* _remove_from_policy_locked: everything is evicted, and all but k put    *)
(* back in that order.                                                     *)
RemoveFromPolicy(pol, k) ==
    LET n       == Len(Held(pol))
        steps   == [i \in 1 .. n |-> i]
        emptied == FoldLeft(LAMBDA q, i : Evict(q), pol, steps)
        others  == SelectSeq(Held(pol), LAMBDA x : x # k)
    IN FoldLeft(LAMBDA q, x : Put(q, x, pol.val[x]), emptied, others)

(* Mutant: invalidate forgets to take the key out of the policy. *)
InvalidateKeepsPolicy(k) ==
    /\ blockOf[k] # 0
    /\ Become([pool    |-> Release(pool, blockOf[k]),
               policy  |-> policy,
               blockOf |-> [blockOf EXCEPT ![k] = 0],
               hashOf  |-> [hashOf EXCEPT ![blockOf[k]] = "none"]])

Invalidate(k) ==
    /\ blockOf[k] # 0
    /\ Become([pool    |-> Release(pool, blockOf[k]),
               policy  |-> RemoveFromPolicy(policy, k),
               blockOf |-> [blockOf EXCEPT ![k] = 0],
               hashOf  |-> [hashOf EXCEPT ![blockOf[k]] = "none"]])

Next ==
    \/ \E k \in Keys : StoreHit(k) \/ StoreMiss(k) \/ Load(k) \/ Invalidate(k)
    \/ EvictIfNeededCall

Spec == Init /\ [][Next]_cacheVars

-----------------------------------------------------------------------------
Stored == {k \in Keys : blockOf[k] # 0}
NoRepeats(list) == Cardinality(ToSet(list)) = Len(list)

(* Whatever the policy, a CPU block is either free or the block of exactly *)
(* one stored hash.  A key the policy holds is loaded from the block that  *)
(* was stored for it: load never reaches its second `return None', and     *)
(* never returns a block that was freed or given to another hash.  Under   *)
(* LRU the policy holds every stored hash, so no block is out of reach.    *)
BlocksAccounted ==
    /\ NoRepeats(pool.free)
    /\ ToSet(pool.free) = {b \in 1 .. NumBlocks : pool.ref[b] = 0}
    /\ {b \in 1 .. NumBlocks : hashOf[b] # "none"} = {blockOf[k] : k \in Stored}
    /\ ToSet(pool.free) \cap {blockOf[k] : k \in Stored} = {}
    /\ Len(pool.free) + Cardinality(Stored) = NumBlocks
    /\ \A k \in Stored : hashOf[blockOf[k]] = k
    /\ \A k \in ToSet(Held(policy)) : Loaded(k) # 0 /\ pool.ref[Loaded(k)] = 1
    /\ policy.kind = "LRU" => Stored = ToSet(Held(policy))

(* The policy never holds more than its capacity, no key is in two of its  *)
(* lists, and the ghosts are bounded by the capacity as well, through any  *)
(* sequence of evictions and re-insertions.                                *)
PolicyWithinCapacity ==
    /\ NoRepeats(Held(policy) \o policy.b1 \o policy.b2)
    /\ Len(Held(policy)) <= policy.cap
    /\ Len(policy.b1) + Len(policy.b2) <= policy.cap
    /\ policy.p \in 0 .. policy.cap

=============================================================================
