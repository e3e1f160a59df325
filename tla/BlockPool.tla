----------------------------- MODULE BlockPool -----------------------------
(***************************************************************************)
(* BlockPool (memory/block_pool.py): reference-counted blocks, the queue   *)
(* of the blocks nobody refers to, and the prefix cache, a map from the    *)
(* hash of a full block to the block that holds it.  A block keeps its     *)
(* hash while it waits in the queue and loses it when it is given away.    *)
(*                                                                         *)
(* A pool is a value: KVCacheManager has two of them.  Blocks are numbered *)
(* from 1 and 0 stands for None.  FreeBlockQueue is a doubly linked list;  *)
(* here it is the sequence of its members.  hash_block_tokens chains a     *)
(* block's tokens to the hash of the block before it, so without a hash    *)
(* collision the hash of block i of a prompt is the prompt's first i       *)
(* blocks: a non-empty sequence of block contents.                         *)
(***************************************************************************)
EXTENDS Integers, Sequences, SequencesExt

NoHash == <<>>

(* hash_block_tokens along the full blocks of a prompt. *)
Hashes(full) == [i \in 1 .. Len(full) |-> SubSeq(full, 1, i)]

NewPool(n, hashes) ==
    [free |-> [i \in 1 .. n |-> i],
     ref  |-> [b \in 1 .. n |-> 0],
     hash |-> [b \in 1 .. n |-> NoHash],
     map  |-> [h \in hashes |-> 0]]

(* Mutant: a block that is given away stays in the prefix cache. *)
AllocateKeepsHash(p, n) ==
    LET got == {p.free[i] : i \in 1 .. n} IN
    [p EXCEPT !.free = SubSeq(p.free, n + 1, Len(p.free)),
              !.ref  = [b \in DOMAIN p.ref |-> IF b \in got THEN 1 ELSE p.ref[b]]]

(* allocate_block, n times: the n blocks at the head of the queue. *)
AllocateBlocks(p, n) ==
    LET got == {p.free[i] : i \in 1 .. n} IN
    [p EXCEPT
        !.free = SubSeq(p.free, n + 1, Len(p.free)),
        !.ref  = [b \in DOMAIN p.ref |-> IF b \in got THEN 1 ELSE p.ref[b]],
        !.map  = [h \in DOMAIN p.map |->
                    IF p.map[h] \in got /\ p.hash[p.map[h]] = h THEN 0 ELSE p.map[h]],
        !.hash = [b \in DOMAIN p.hash |-> IF b \in got THEN NoHash ELSE p.hash[b]]]

(* free_block, which raises when the count is 0 already: a count below 0    *)
(* here is that exception.                                                  *)
FreeBlock(p, b) ==
    [p EXCEPT !.ref[b] = @ - 1,
              !.free   = IF p.ref[b] = 1 THEN Append(@, b) ELSE @]

FreeBlocks(p, bs) == FoldLeft(FreeBlock, p, bs)

(* Blocks taken and given back: they lose their hashes and queue up last. *)
Rotate(p, n) == FreeBlocks(AllocateBlocks(p, n), SubSeq(p.free, 1, n))

(* How many of the chained hashes hs are in the prefix cache before the     *)
(* first that is not.                                                       *)
Matched(p, hs) ==
    CHOOSE k \in 0 .. Len(hs) :
        /\ \A i \in 1 .. k : p.map[hs[i]] # 0
        /\ k < Len(hs) => p.map[hs[k + 1]] = 0

CachedBlocks(p, hs) == [i \in 1 .. Matched(p, hs) |-> p.map[hs[i]]]


(* get_cached_block of each matched hash: one more reference, and out of    *)
(* the queue if there was none.                                             *)
GetCachedBlocks(p, hs) ==
    LET hit == ToSet(CachedBlocks(p, hs)) IN
    [p EXCEPT !.free = SelectSeq(p.free, LAMBDA b : b \notin hit),
              !.ref  = [b \in DOMAIN p.ref |->
                          IF b \in hit THEN p.ref[b] + 1 ELSE p.ref[b]]]

(* cache_full_block: block b now stands for hash h, and no other does. *)
CacheFullBlock(p, b, h) ==
    LET old   == p.hash[b]
        map   == IF old \notin {NoHash, h} /\ p.map[old] = b
                 THEN [p.map EXCEPT ![old] = 0] ELSE p.map
        other == map[h]
    IN [p EXCEPT !.map  = [map EXCEPT ![h] = b],
                 !.hash = [x \in DOMAIN p.hash |->
                             IF x = b THEN h ELSE IF x = other THEN NoHash ELSE p.hash[x]]]
=============================================================================
