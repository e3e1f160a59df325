--------------------------- MODULE PagedKVCache ---------------------------
(***************************************************************************)
(* The paged KV cache of the serving engine                                *)
(* (moe_infinity/serving/kv_cache.py: BlockAllocator, BlockTable and       *)
(* PagedKVCache).  GPU memory is NumBlocks blocks of BlockSize token       *)
(* slots.  A sequence owns an ordered list of blocks; a preempted sequence *)
(* has its blocks copied to a CPU buffer (swap_out), released              *)
(* (free_gpu_blocks) and later reallocated and copied back (swap_in).      *)
(*                                                                         *)
(* Each operation is an action with the cache's six structures as state.   *)
(* An operation that raises is an action of its own: it has exactly the    *)
(* effects the code has carried out when the exception leaves it.          *)
(***************************************************************************)
EXTENDS Integers, Sequences, FiniteSets

CONSTANTS
    Seqs,       \* sequence ids
    NumBlocks,  \* BlockAllocator.num_blocks
    BlockSize,  \* BlockAllocator.block_size
    Data,       \* what the attention kernels may store in a block
    Zero,       \* the content of a block nobody has written (torch.zeros)
    None,       \* "no CPU buffer"
    MaxTokens   \* bound: tokens a sequence may reach

ASSUME NumBlocksAssumption == NumBlocks \in Nat \ {0}
ASSUME BlockSizeAssumption == BlockSize \in Nat \ {0}
ASSUME ZeroAssumption == Zero \in Data
ASSUME NoneAssumption == None \notin Seq(Data)
ASSUME MaxTokensAssumption == MaxTokens \in Nat

Blocks == 0 .. NumBlocks - 1

VARIABLES
    free,     \* BlockAllocator._free_block_heap, and its twin _free_block_set
    known,    \* the keys of PagedKVCache._sequence_tables
    blocks,   \* BlockTable._block_ids of each sequence
    tokens,   \* BlockTable._num_tokens of each sequence
    swapped,  \* _swapped_out_sequences
    buffer,   \* _swapped_cpu_buffers: block contents, or None
    saved,    \* _swapped_num_tokens, 0 where there is no entry
    data      \* _kv_cache: the content of every GPU block

kvVars == <<free, known, blocks, tokens, swapped, buffer, saved, data>>

CeilDiv(n, d) == (n + d - 1) \div d

Owned(s) == {blocks[s][i] : i \in 1 .. Len(blocks[s])}

(* What the GPU blocks of s hold, in order: self._kv_cache[:, block_ids]. *)
GpuContent(s) == [i \in 1 .. Len(blocks[s]) |-> data[blocks[s][i]]]

(* BlockAllocator.allocate pops the heap n times: the n smallest free ids, *)
(* in increasing order.  The set is empty when fewer than n are free.      *)
Allocations(n) ==
    {q \in [1 .. n -> free] :
        /\ \A i, j \in 1 .. n : i < j => q[i] < q[j]
        /\ \A i \in 1 .. n, b \in free :
              b <= q[i] => \E j \in 1 .. n : q[j] = b}

(* allocate raises RuntimeError before it pops anything. *)
Exhausted(n) == n > Cardinality(free)

KVInit ==
    /\ free = Blocks
    /\ known = {}
    /\ blocks = [s \in Seqs |-> <<>>]
    /\ tokens = [s \in Seqs |-> 0]
    /\ swapped = {}
    /\ buffer = [s \in Seqs |-> None]
    /\ saved = [s \in Seqs |-> 0]
    /\ data = [b \in Blocks |-> Zero]

-----------------------------------------------------------------------------
(* allocate_sequence(s, n): one append_token per token of the prompt, then *)
(* the table is registered.                                                *)
AllocateSequence(s, n) ==
    /\ s \notin known
    /\ ~Exhausted(CeilDiv(n, BlockSize))
    /\ \E q \in Allocations(CeilDiv(n, BlockSize)) :
          /\ free' = free \ {q[i] : i \in DOMAIN q}
          /\ blocks' = [blocks EXCEPT ![s] = q]
    /\ known' = known \cup {s}
    /\ tokens' = [tokens EXCEPT ![s] = n]
    /\ UNCHANGED <<swapped, buffer, saved, data>>

(* allocate_sequence raises RuntimeError part of the way: the blocks popped *)
(* so far belong to a BlockTable that is never registered.                  *)
AllocateSequenceFails(s, n) ==
    /\ s \notin known
    /\ Exhausted(CeilDiv(n, BlockSize))
    /\ free' = {}
    /\ UNCHANGED <<known, blocks, tokens, swapped, buffer, saved, data>>

(* Mutant: the block taken is not removed from the free list. *)
AppendTokenKeepsFree(s) ==
    /\ s \in known
    /\ \/ /\ tokens[s] % BlockSize = 0
          /\ ~Exhausted(1)
          /\ \E q \in Allocations(1) :
                blocks' = [blocks EXCEPT ![s] = Append(@, q[1])]
       \/ tokens[s] % BlockSize # 0 /\ UNCHANGED blocks
    /\ tokens' = [tokens EXCEPT ![s] = @ + 1]
    /\ UNCHANGED <<free, known, swapped, buffer, saved, data>>

(* append_tokens(s, 1): BlockTable.append_token takes a block first when the *)
(* last one is full.  append_tokens(s, n) is n of these.                     *)
AppendToken(s) ==
    /\ s \in known
    /\ \/ /\ tokens[s] % BlockSize = 0
          /\ ~Exhausted(1)
          /\ \E q \in Allocations(1) :
                /\ free' = free \ {q[1]}
                /\ blocks' = [blocks EXCEPT ![s] = Append(@, q[1])]
       \/ /\ tokens[s] % BlockSize # 0
          /\ UNCHANGED <<free, blocks>>
    /\ tokens' = [tokens EXCEPT ![s] = @ + 1]
    /\ UNCHANGED <<known, swapped, buffer, saved, data>>

(* append_token raises RuntimeError; nothing has changed. *)
AppendTokenFails(s) ==
    /\ s \in known
    /\ tokens[s] % BlockSize = 0
    /\ Exhausted(1)
    /\ UNCHANGED kvVars

(* free_sequence on every member of S; one that is not registered is left   *)
(* alone.  BlockTable.release empties the table and resets its count.       *)
FreeSequences(S) ==
    LET F == S \cap known IN
    /\ free' = free \cup UNION {Owned(s) : s \in F}
    /\ known' = known \ F
    /\ blocks' = [s \in Seqs |-> IF s \in F THEN <<>> ELSE blocks[s]]
    /\ tokens' = [s \in Seqs |-> IF s \in F THEN 0 ELSE tokens[s]]
    /\ buffer' = [s \in Seqs |-> IF s \in F THEN None ELSE buffer[s]]
    /\ saved' = [s \in Seqs |-> IF s \in F THEN 0 ELSE saved[s]]
    /\ swapped' = swapped \ F
    /\ UNCHANGED data

(* free_gpu_blocks(s): the blocks go back to the allocator, the token count *)
(* stays (release_blocks_only).                                             *)
FreeGpuBlocks(s) ==
    /\ s \in known
    /\ free' = free \cup Owned(s)
    /\ blocks' = [blocks EXCEPT ![s] = <<>>]
    /\ UNCHANGED <<known, tokens, swapped, buffer, saved, data>>

(* swap_out(s): copies the blocks to a CPU buffer, when there are any; the *)
(* GPU blocks stay allocated.                                              *)
SwapOut(s) ==
    /\ s \in known \ swapped
    /\ saved' = [saved EXCEPT ![s] = tokens[s]]
    /\ buffer' = IF blocks[s] = <<>> THEN buffer
                 ELSE [buffer EXCEPT ![s] = GpuContent(s)]
    /\ swapped' = swapped \cup {s}
    /\ UNCHANGED <<free, known, blocks, tokens, data>>

(* Mutant: the buffer is copied back in the reverse order of the blocks. *)
RestoredReversed(s, q) ==
    [b \in Blocks |->
        IF \E i \in DOMAIN q : q[i] = b
        THEN buffer[s][Len(q) + 1 - CHOOSE i \in DOMAIN q : q[i] = b]
        ELSE data[b]]

(* The GPU blocks q now hold the buffer of s. *)
Restored(s, q) ==
    [b \in Blocks |->
        IF \E i \in DOMAIN q : q[i] = b
        THEN buffer[s][CHOOSE i \in DOMAIN q : q[i] = b]
        ELSE data[b]]

(* swap_in(s): forgets the buffer and the saved count first, then allocates *)
(* as many blocks as the buffer has, unless the sequence still has its own, *)
(* and copies the buffer into them.  Without a buffer only the swapped mark *)
(* goes.                                                                    *)
SwapIn(s) ==
    /\ s \in known \cap swapped
    /\ \/ /\ buffer[s] = None
          /\ UNCHANGED <<free, blocks, tokens, data>>
       \/ /\ buffer[s] # None
          /\ blocks[s] = <<>>
          /\ ~Exhausted(Len(buffer[s]))
          /\ \E q \in Allocations(Len(buffer[s])) :
                /\ free' = free \ {q[i] : i \in DOMAIN q}
                /\ blocks' = [blocks EXCEPT ![s] = q]
                /\ data' = Restored(s, q)
          /\ tokens' = [tokens EXCEPT ![s] = saved[s]]
       \/ /\ buffer[s] # None
          /\ blocks[s] # <<>>
          /\ data' = Restored(s, blocks[s])
          /\ UNCHANGED <<free, blocks, tokens>>
    /\ buffer' = [buffer EXCEPT ![s] = None]
    /\ saved' = [saved EXCEPT ![s] = 0]
    /\ swapped' = swapped \ {s}
    /\ UNCHANGED known

(* swap_in(s) raises RuntimeError from allocate, after the buffer and the   *)
(* saved count were popped: s stays marked swapped and its data is gone.    *)
SwapInFails(s) ==
    /\ s \in known \cap swapped
    /\ buffer[s] # None
    /\ blocks[s] = <<>>
    /\ Exhausted(Len(buffer[s]))
    /\ buffer' = [buffer EXCEPT ![s] = None]
    /\ saved' = [saved EXCEPT ![s] = 0]
    /\ UNCHANGED <<free, known, blocks, tokens, swapped, data>>

(* The attention kernels store into one block of a scheduled sequence. *)
WriteBlock(s, i, v) ==
    /\ s \in known
    /\ i \in 1 .. Len(blocks[s])
    /\ data' = [data EXCEPT ![blocks[s][i]] = v]
    /\ UNCHANGED <<free, known, blocks, tokens, swapped, buffer, saved>>

-----------------------------------------------------------------------------
(* The calls the scheduler and the engine make.  They append to and write a *)
(* sequence only while it is not swapped out, and release its GPU blocks    *)
(* only when it is: ServingEngine checks that they keep to this.            *)
KVNext ==
    \/ \E S \in SUBSET Seqs : FreeSequences(S)
    \/ \E s \in Seqs :
        \/ \E n \in 0 .. MaxTokens : AllocateSequence(s, n)
        \/ \E n \in 0 .. MaxTokens : AllocateSequenceFails(s, n)
        \/ tokens[s] < MaxTokens /\ s \notin swapped /\ AppendToken(s)
        \/ tokens[s] < MaxTokens /\ s \notin swapped /\ AppendTokenFails(s)
        \/ s \in swapped /\ FreeGpuBlocks(s)
        \/ SwapOut(s)
        \/ SwapIn(s)
        \/ SwapInFails(s)
        \/ /\ s \notin swapped
           /\ \E i \in 1 .. Len(blocks[s]), v \in Data : WriteBlock(s, i, v)

KVSpec == KVInit /\ [][KVNext]_kvVars

-----------------------------------------------------------------------------
(* Type invariant: the cache's structures are well formed. *)
KVTypeOK ==
    /\ free \subseteq Blocks
    /\ known \subseteq Seqs
    /\ blocks \in [Seqs -> Seq(Blocks)]
    /\ tokens \in [Seqs -> Nat]
    /\ swapped \subseteq known
    /\ buffer \in [Seqs -> Seq(Data) \cup {None}]
    /\ saved \in [Seqs -> Nat]
    /\ data \in [Blocks -> Data]

(* No GPU block is in two block tables, twice in one, or both in a table   *)
(* and on the free list, whatever the order of allocations, swaps and      *)
(* frees.  So BlockAllocator.free never raises "already free", and no two  *)
(* sequences ever write each other's KV entries.                           *)
BlockOwnership ==
    \A s, t \in Seqs :
        \A i \in 1 .. Len(blocks[s]), j \in 1 .. Len(blocks[t]) :
            /\ blocks[s][i] \notin free
            /\ blocks[s][i] = blocks[t][j] => s = t /\ i = j

(* What a CPU buffer is worth: only a swapped-out sequence has one, and it *)
(* has as many blocks as the table that swap_in copies it into, so the     *)
(* tensor assignment at the end of swap_in always has matching shapes.     *)
BufferFitsTable ==
    \A s \in Seqs :
        buffer[s] # None =>
            /\ s \in swapped
            /\ Len(buffer[s]) > 0
            /\ blocks[s] # <<>> => Len(blocks[s]) = Len(buffer[s])

(* A block table, or the buffer that stands for it, never has more blocks  *)
(* than its token count needs: no sequence holds GPU memory beyond the     *)
(* ceil(tokens / block_size) blocks the scheduler budgets for it.          *)
NoExcessBlocks ==
    \A s \in Seqs :
        /\ Len(blocks[s]) <= CeilDiv(tokens[s], BlockSize)
        /\ buffer[s] # None => Len(buffer[s]) <= CeilDiv(saved[s], BlockSize)

(* A sequence that is not registered leaves nothing behind: free_sequence  *)
(* releases the blocks, the CPU buffer and the swap marks together.        *)
NothingLeftBehind ==
    \A s \in Seqs \ known :
        blocks[s] = <<>> /\ tokens[s] = 0 /\ buffer[s] = None /\ saved[s] = 0

-----------------------------------------------------------------------------
(* The content a sequence will see when it next runs: its CPU buffer while *)
(* it is swapped out, its GPU blocks otherwise.                            *)
StoreContent ==
    [s \in Seqs |-> IF s \notin known THEN None
                    ELSE IF buffer[s] # None THEN buffer[s] ELSE GpuContent(s)]

Store == INSTANCE SequenceStore WITH content <- StoreContent, Absent <- None

(* The cache implements the store in which every sequence has KV entries of *)
(* its own: swap_out, free_gpu_blocks and swap_in are invisible, although   *)
(* the sequence comes back in other blocks and others used its old ones.    *)
ImplementsStore == Store!StoreSpec
=============================================================================
