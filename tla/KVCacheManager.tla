--------------------------- MODULE KVCacheManager ---------------------------
(***************************************************************************)
(* KVCacheManager (memory/kv_cache_manager.py): the block tables of the    *)
(* sequences over a GPU pool, and the swap protocol that moves a table to  *)
(* a CPU pool and back.  Its state is a record kv:                         *)
(*   gpu, cpu                the pools                                     *)
(*   gpuTracked, cpuTracked  _gpu_allocated_blocks, _cpu_allocated_blocks  *)
(*   table[s]                _seq_to_gpu_blocks, <<>> for no entry         *)
(*   swapMap[g]              _swap_map_gpu_to_cpu, 0 for no entry          *)
(*   swapped[s]              _seq_to_swapped_gpu_blocks, <<>> for none     *)
(* The methods are operators from one record to the next.                  *)
(***************************************************************************)
EXTENDS BlockPool

NewKV(seqs, nGpu, nCpu, hashes) ==
    [gpu |-> NewPool(nGpu, hashes), cpu |-> NewPool(nCpu, {}),
     gpuTracked |-> {}, cpuTracked |-> {},
     table   |-> [s \in seqs |-> <<>>],
     swapMap |-> [g \in 1 .. nGpu |-> 0],
     swapped |-> [s \in seqs |-> <<>>]]

CeilDiv(n, d) == (n + d - 1) \div d

(* release_gpu_block *)
ReleaseGpu(kv, b) ==
    [kv EXCEPT !.gpu = FreeBlock(kv.gpu, b),
               !.gpuTracked = IF kv.gpu.ref[b] = 1 THEN @ \ {b} ELSE @]

(* The loops that release the blocks of a list that are still tracked. *)
ReleaseAll(kv, bs) ==
    FoldLeft(LAMBDA k, b : IF b \in k.gpuTracked THEN ReleaseGpu(k, b) ELSE k, kv, bs)

(* allocate_gpu_block, n times. *)
AllocateGpu(kv, n) ==
    [kv EXCEPT !.gpu = AllocateBlocks(kv.gpu, n),
               !.gpuTracked = @ \cup {kv.gpu.free[i] : i \in 1 .. n}]

(* allocate_blocks_for_sequence, when the blocks are there ... *)
AllocateForSequence(kv, s, n) ==
    [AllocateGpu(kv, n) EXCEPT !.table[s] = SubSeq(kv.gpu.free, 1, n)]

(* ... and when they are not: those there were are taken and given back. *)
AllocateFails(kv) == [kv EXCEPT !.gpu = Rotate(kv.gpu, Len(kv.gpu.free))]

(* append_token_block, when there is a block. *)
AppendTokenBlock(kv, s) ==
    [AllocateGpu(kv, 1) EXCEPT !.table[s] = Append(@, Head(kv.gpu.free))]

-----------------------------------------------------------------------------
(* free_sequence: the table's blocks, and what the swap map now says are    *)
(* its copies.                                                              *)
FreeSequence(kv, s) ==
    LET k  == [ReleaseAll(kv, kv.table[s]) EXCEPT !.table[s] = <<>>, !.swapped[s] = <<>>]
        cs == SelectSeq([i \in 1 .. Len(kv.swapped[s]) |-> kv.swapMap[kv.swapped[s][i]]],
                        LAMBDA c : c # 0 /\ c \in kv.cpuTracked)
    IN [k EXCEPT !.swapMap = [g \in DOMAIN @ |-> IF g \in ToSet(kv.swapped[s]) THEN 0 ELSE @[g]],
                 !.cpuTracked = @ \ ToSet(cs),
                 !.cpu = FreeBlocks(@, cs)]

(* prepare_swap_out takes a CPU block for each block of the table, or none. *)
CanSwapOut(kv, s) == kv.table[s] # <<>> /\ Len(kv.cpu.free) >= Len(kv.table[s])
SwapOutTargets(kv, s) == SubSeq(kv.cpu.free, 1, Len(kv.table[s]))
SwapOutRefused(kv, s) ==
    IF kv.table[s] = <<>> THEN kv ELSE [kv EXCEPT !.cpu = Rotate(@, Len(@.free))]

(* prepare_swap_out and commit_swap_out.  The map is indexed by GPU block   *)
(* and the blocks are released: an entry stands while others use the block. *)
SwapOut(kv, s) ==
    LET gs == kv.table[s]
        cs == SwapOutTargets(kv, s)
    IN [ReleaseAll(kv, gs) EXCEPT
          !.cpu = AllocateBlocks(@, Len(gs)),
          !.cpuTracked = @ \cup ToSet(cs),
          !.swapMap = [g \in DOMAIN @ |->
                         IF g \in ToSet(gs) THEN cs[SelectInSeq(gs, LAMBDA x : x = g)] ELSE @[g]],
          !.swapped[s] = gs,
          !.table[s] = <<>>]

(* prepare_swap_in(s, orig) takes a GPU block for each block that has a     *)
(* copy, until one has none or the pool is empty: then it gives them back.  *)
SwapInReach(kv, orig) ==
    CHOOSE k \in 0 .. Len(orig) :
        /\ k <= Len(kv.gpu.free)
        /\ \A i \in 1 .. k : kv.swapMap[orig[i]] # 0
        /\ k < Len(orig) => kv.swapMap[orig[k + 1]] = 0 \/ Len(kv.gpu.free) = k
CanSwapIn(kv, orig) == orig # <<>> /\ SwapInReach(kv, orig) = Len(orig)
SwapInSources(kv, orig) == [i \in 1 .. Len(orig) |-> kv.swapMap[orig[i]]]
SwapInRefused(kv, orig) == [kv EXCEPT !.gpu = Rotate(@, SwapInReach(kv, orig))]

(* prepare_swap_in and commit_swap_in. *)
SwapIn(kv, s, orig) ==
    LET cs == SelectSeq(SwapInSources(kv, orig), LAMBDA c : c \in kv.cpuTracked) IN
    [AllocateGpu(kv, Len(orig)) EXCEPT
        !.cpu = FreeBlocks(@, cs),
        !.cpuTracked = @ \ ToSet(cs),
        !.swapMap = [g \in DOMAIN @ |-> IF g \in ToSet(orig) THEN 0 ELSE @[g]],
        !.swapped[s] = <<>>,
        !.table[s] = SubSeq(kv.gpu.free, 1, Len(orig))]
=============================================================================
