------------------------ MODULE PagedKVCacheProofs ------------------------
(***************************************************************************)
(* Proofs about PagedKVCache: its safety invariants, for any number of     *)
(* sequences, blocks and tokens and any block size.                        *)
(***************************************************************************)
EXTENDS PagedKVCache, TLAPS

USE NumBlocksAssumption, BlockSizeAssumption, ZeroAssumption

-----------------------------------------------------------------------------
(* What BlockAllocator.allocate returns: n different free blocks. *)
LEMMA AllocationFacts ==
    ASSUME KVTypeOK, NEW n \in Nat, NEW q \in Allocations(n)
    PROVE  /\ q \in Seq(Blocks)
           /\ Len(q) = n
           /\ DOMAIN q = 1 .. n
           /\ \A i \in 1 .. n : q[i] \in free
           /\ \A i, j \in 1 .. n : q[i] = q[j] => i = j
<1>1. q \in [1 .. n -> free]
  BY DEF Allocations
<1>2. q \in [1 .. n -> Blocks]
  BY <1>1 DEF KVTypeOK
<1>3. q \in Seq(Blocks) /\ Len(q) = n /\ DOMAIN q = 1 .. n
  BY <1>2
<1>4. \A i \in 1 .. n : q[i] \in free /\ q[i] \in Int
  <2>1. \A b \in Blocks : b \in Int
    BY DEF Blocks
  <2>2. \A i \in 1 .. n : q[i] \in free /\ q[i] \in Blocks
    BY <1>1, <1>2
  <2>3. QED
    BY <2>1, <2>2
<1>5. \A i, j \in 1 .. n : i < j => q[i] < q[j]
  BY DEF Allocations
<1>6. \A i, j \in 1 .. n : q[i] = q[j] => i = j
  <2>1. SUFFICES ASSUME NEW i \in 1 .. n, NEW j \in 1 .. n, q[i] = q[j], i # j
                 PROVE  FALSE
    OBVIOUS
  <2>2. CASE i < j
    BY <2>1, <2>2, <1>4, <1>5
  <2>3. CASE j < i
    BY <2>1, <2>3, <1>4, <1>5
  <2>4. QED
    BY <2>1, <2>2, <2>3
<1>7. QED
  BY <1>3, <1>4, <1>6

(* The number of blocks a token count needs is a natural number, never *)
(* falls when a token is appended, and rises by one at a block boundary. *)
LEMMA CeilDivFacts ==
    ASSUME NEW t \in Nat
    PROVE  /\ CeilDiv(t, BlockSize) \in Nat
           /\ CeilDiv(t, BlockSize) <= CeilDiv(t + 1, BlockSize)
           /\ t % BlockSize = 0 =>
                 CeilDiv(t + 1, BlockSize) = CeilDiv(t, BlockSize) + 1
           /\ t > 0 => CeilDiv(t, BlockSize) > 0
<1> DEFINE B == BlockSize
<1>1. B \in Nat /\ B > 0
  OBVIOUS
<1>2. QED
  BY <1>1, SMTT(60) DEF CeilDiv

-----------------------------------------------------------------------------
(* The inductive invariant: the invariants of the module rest on each other. *)
KVInv ==
    /\ KVTypeOK
    /\ BlockOwnership
    /\ BufferFitsTable
    /\ NoExcessBlocks
    /\ NothingLeftBehind

(* A cache just constructed (PagedKVCache.__post_init__) satisfies it. *)
LEMMA InitKVInv == KVInit => KVInv
<1> SUFFICES ASSUME KVInit PROVE KVInv
  OBVIOUS
<1>1. KVTypeOK
  BY DEF KVInit, KVTypeOK
<1>2. BlockOwnership
  BY DEF KVInit, BlockOwnership, Owned
<1>3. BufferFitsTable
  BY DEF KVInit, BufferFitsTable
<1>4. NoExcessBlocks
  BY CeilDivFacts DEF KVInit, NoExcessBlocks
<1>5. NothingLeftBehind
  BY DEF KVInit, NothingLeftBehind
<1>6. QED
  BY <1>1, <1>2, <1>3, <1>4, <1>5 DEF KVInv

(* Giving the blocks that allocate returned to s keeps every block with *)
(* one owner: allocate_sequence and swap_in both do this.               *)
LEMMA GrantKeepsOwnership ==
    ASSUME KVTypeOK, BlockOwnership, NEW s \in Seqs,
           NEW n \in Nat, NEW q \in Allocations(n),
           free' = free \ {q[i] : i \in DOMAIN q},
           blocks' = [blocks EXCEPT ![s] = q]
    PROVE  BlockOwnership'
<1>1. /\ Len(q) = n /\ DOMAIN q = 1 .. n
      /\ \A i \in 1 .. n : q[i] \in free
      /\ \A i, j \in 1 .. n : q[i] = q[j] => i = j
  BY AllocationFacts
<1>2. blocks'[s] = q /\ \A t \in Seqs \ {s} : blocks'[t] = blocks[t]
  BY DEF KVTypeOK
<1>3. free' \subseteq free /\ \A i \in 1 .. n : q[i] \notin free'
  BY <1>1
<1>4. \A t \in Seqs : \A i \in 1 .. Len(blocks[t]) : blocks[t][i] \notin free
  BY DEF BlockOwnership
<1>5. SUFFICES ASSUME NEW t \in Seqs, NEW u \in Seqs,
                      NEW i \in 1 .. Len(blocks'[t]), NEW j \in 1 .. Len(blocks'[u])
               PROVE  /\ blocks'[t][i] \notin free'
                      /\ blocks'[t][i] = blocks'[u][j] => t = u /\ i = j
  BY DEF BlockOwnership
<1>6. CASE t = s /\ u = s
  BY <1>1, <1>2, <1>3, <1>5, <1>6
<1>7. CASE t = s /\ u # s
  BY <1>1, <1>2, <1>3, <1>4, <1>5, <1>7
<1>8. CASE t # s /\ u = s
  BY <1>1, <1>2, <1>3, <1>4, <1>5, <1>8
<1>9. CASE t # s /\ u # s
  BY <1>2, <1>3, <1>4, <1>5, <1>9 DEF BlockOwnership
<1>10. QED
  BY <1>6, <1>7, <1>8, <1>9

(* allocate_sequence keeps the inductive invariant. *)
LEMMA AllocateSequenceKVInv ==
    ASSUME KVInv, NEW s \in Seqs, NEW n \in Nat, AllocateSequence(s, n)
    PROVE  KVInv'
<1> DEFINE k == CeilDiv(n, BlockSize)
<1>1. PICK q \in Allocations(k) :
         /\ free' = free \ {q[i] : i \in DOMAIN q}
         /\ blocks' = [blocks EXCEPT ![s] = q]
  BY DEF AllocateSequence
<1>2. k \in Nat
  BY CeilDivFacts
<1>3. /\ q \in Seq(Blocks) /\ Len(q) = k /\ DOMAIN q = 1 .. k
      /\ \A i \in 1 .. k : q[i] \in free
      /\ \A i, j \in 1 .. k : q[i] = q[j] => i = j
  BY <1>2, AllocationFacts DEF KVInv
<1> HIDE DEF k
<1>4. KVTypeOK'
  BY <1>1, <1>3 DEF KVInv, KVTypeOK, AllocateSequence
<1>5. BlockOwnership'
  BY <1>1, <1>2, GrantKeepsOwnership DEF KVInv
<1>6. BufferFitsTable'
  BY <1>1 DEF KVInv, KVTypeOK, BufferFitsTable, AllocateSequence, NothingLeftBehind
<1>7. NoExcessBlocks'
  BY <1>1, <1>3 DEF KVInv, KVTypeOK, NoExcessBlocks, AllocateSequence, k
<1>8. NothingLeftBehind'
  BY <1>1 DEF KVInv, KVTypeOK, NothingLeftBehind, AllocateSequence
<1>9. QED
  BY <1>4, <1>5, <1>6, <1>7, <1>8 DEF KVInv

(* append_tokens keeps it, on both sides of a block boundary, for a *)
(* sequence that is not swapped out.                                *)
LEMMA AppendTokenKVInv ==
    ASSUME KVInv, NEW s \in Seqs \ swapped, AppendToken(s)
    PROVE  KVInv'
<1> USE DEF KVInv
<1>1. CASE tokens[s] % BlockSize = 0
  <2>1. PICK q \in Allocations(1) :
           /\ free' = free \ {q[1]}
           /\ blocks' = [blocks EXCEPT ![s] = Append(blocks[s], q[1])]
    BY <1>1 DEF AppendToken
  <2>2. q[1] \in free
    BY AllocationFacts
  <2>3. /\ tokens' = [tokens EXCEPT ![s] = tokens[s] + 1]
        /\ UNCHANGED <<known, swapped, buffer, saved, data>>
        /\ s \in known
    BY DEF AppendToken
  <2>4. tokens[s] \in Nat /\ blocks[s] \in Seq(Blocks)
    BY DEF KVTypeOK
  <2>5. /\ blocks'[s] \in Seq(Blocks)
        /\ Len(blocks'[s]) = Len(blocks[s]) + 1
        /\ \A i \in 1 .. Len(blocks[s]) : blocks'[s][i] = blocks[s][i]
        /\ blocks'[s][Len(blocks[s]) + 1] = q[1]
        /\ \A t \in Seqs \ {s} : blocks'[t] = blocks[t]
    BY <2>1, <2>2, <2>4 DEF KVTypeOK
  <2>6. KVTypeOK'
    BY <2>1, <2>2, <2>3, <2>5 DEF KVTypeOK
  <2>7. BlockOwnership'
    <3>1. Len(blocks[s]) \in Nat
      BY <2>4
    <3>2. \A i \in 1 .. Len(blocks'[s]) :
             i \in 1 .. Len(blocks[s]) \/ i = Len(blocks[s]) + 1
      BY <2>5, <3>1
    <3>3. \A t \in Seqs : \A i \in 1 .. Len(blocks[t]) : blocks[t][i] \notin free
      BY DEF BlockOwnership
    <3>4. QED
      BY <2>1, <2>2, <2>5, <3>1, <3>2, <3>3 DEF BlockOwnership
  <2>8. BufferFitsTable'
    BY <2>3, <2>5 DEF BufferFitsTable
  <2>9. NoExcessBlocks'
    <3>1. CeilDiv(tokens[s] + 1, BlockSize) = CeilDiv(tokens[s], BlockSize) + 1
      BY <1>1, <2>4, CeilDivFacts
    <3>2. CeilDiv(tokens[s], BlockSize) \in Nat
      BY <2>4, CeilDivFacts
    <3>3. Len(blocks[s]) \in Nat /\ Len(blocks[s]) <= CeilDiv(tokens[s], BlockSize)
      BY <2>4 DEF NoExcessBlocks
    <3>4. Len(blocks'[s]) <= CeilDiv(tokens'[s], BlockSize)
      BY <2>3, <2>5, <3>1, <3>2, <3>3 DEF KVTypeOK
    <3>5. \A t \in Seqs \ {s} : tokens'[t] = tokens[t] /\ blocks'[t] = blocks[t]
      BY <2>3, <2>5 DEF KVTypeOK
    <3>6. QED
      BY <2>3, <3>4, <3>5 DEF NoExcessBlocks
  <2>10. NothingLeftBehind'
    BY <2>3, <2>5 DEF KVTypeOK, NothingLeftBehind
  <2>11. QED
    BY <2>6, <2>7, <2>8, <2>9, <2>10
<1>2. CASE tokens[s] % BlockSize # 0
  <2>1. /\ tokens' = [tokens EXCEPT ![s] = tokens[s] + 1]
        /\ UNCHANGED <<free, blocks, known, swapped, buffer, saved, data>>
        /\ s \in known
    BY <1>2 DEF AppendToken
  <2>2. KVTypeOK' /\ BlockOwnership' /\ BufferFitsTable' /\ NothingLeftBehind'
    <3>1. KVTypeOK'
      BY <2>1 DEF KVTypeOK
    <3>2. BlockOwnership' /\ BufferFitsTable'
      BY <2>1 DEF BlockOwnership, BufferFitsTable
    <3>3. NothingLeftBehind'
      BY <2>1 DEF KVTypeOK, NothingLeftBehind
    <3>4. QED
      BY <3>1, <3>2, <3>3
  <2>3. NoExcessBlocks'
    <3>1. tokens[s] \in Nat /\ Len(blocks[s]) \in Nat
      BY DEF KVTypeOK
    <3>2. CeilDiv(tokens[s], BlockSize) <= CeilDiv(tokens[s] + 1, BlockSize)
      BY <3>1, CeilDivFacts
    <3>3. CeilDiv(tokens[s], BlockSize) \in Nat
      BY <3>1, CeilDivFacts
    <3>4. tokens[s] + 1 \in Nat
      BY <3>1
    <3>5. CeilDiv(tokens[s] + 1, BlockSize) \in Nat
      BY <3>4, CeilDivFacts
    <3>6. QED
      BY <2>1, <3>1, <3>2, <3>3, <3>5 DEF KVTypeOK, NoExcessBlocks
  <2>4. QED
    BY <2>2, <2>3
<1>3. QED
  BY <1>1, <1>2

(* free_sequence keeps it, for any set of sequences freed together. *)
LEMMA FreeSequencesKVInv ==
    ASSUME KVInv, NEW S \in SUBSET Seqs, FreeSequences(S)
    PROVE  KVInv'
<1> DEFINE F == S \cap known
<1>1. /\ free' = free \cup UNION {Owned(s) : s \in F}
      /\ known' = known \ F
      /\ blocks' = [s \in Seqs |-> IF s \in F THEN <<>> ELSE blocks[s]]
      /\ tokens' = [s \in Seqs |-> IF s \in F THEN 0 ELSE tokens[s]]
      /\ buffer' = [s \in Seqs |-> IF s \in F THEN None ELSE buffer[s]]
      /\ saved' = [s \in Seqs |-> IF s \in F THEN 0 ELSE saved[s]]
      /\ swapped' = swapped \ F
      /\ data' = data
  BY DEF FreeSequences
<1>2. F \subseteq Seqs
  OBVIOUS
<1> HIDE DEF F
<1>3. \A b \in free' : b \in free \/ \E s \in F : \E i \in 1 .. Len(blocks[s]) : b = blocks[s][i]
  BY <1>1 DEF Owned
<1>4. free' \subseteq Blocks
  <2>1. \A s \in F : blocks[s] \in Seq(Blocks)
    BY <1>2 DEF KVInv, KVTypeOK
  <2>2. \A s \in F : \A i \in 1 .. Len(blocks[s]) : blocks[s][i] \in Blocks
    BY <2>1
  <2>3. QED
    BY <1>3, <2>2 DEF KVInv, KVTypeOK
<1>5. KVTypeOK'
  BY <1>1, <1>4 DEF KVInv, KVTypeOK
<1>6. BlockOwnership'
  <2>1. SUFFICES ASSUME NEW t \in Seqs, NEW u \in Seqs,
                        NEW i \in 1 .. Len(blocks'[t]), NEW j \in 1 .. Len(blocks'[u])
                 PROVE  /\ blocks'[t][i] \notin free'
                        /\ blocks'[t][i] = blocks'[u][j] => t = u /\ i = j
    BY DEF BlockOwnership
  <2>2. t \notin F /\ u \notin F
    BY <1>1, <2>1
  <2>3. blocks'[t] = blocks[t] /\ blocks'[u] = blocks[u]
    BY <1>1, <2>2
  <2>4. blocks[t][i] \notin free'
    BY <1>2, <1>3, <2>1, <2>2, <2>3 DEF KVInv, BlockOwnership
  <2>5. QED
    BY <2>1, <2>3, <2>4 DEF KVInv, BlockOwnership
<1>7. BufferFitsTable'
  BY <1>1 DEF KVInv, BufferFitsTable
<1>8. NoExcessBlocks'
  <2>1. CeilDiv(0, BlockSize) \in Nat
    BY CeilDivFacts
  <2>2. QED
    BY <1>1, <2>1 DEF KVInv, NoExcessBlocks
<1>9. NothingLeftBehind'
  BY <1>1 DEF KVInv, NothingLeftBehind
<1>10. QED
  BY <1>5, <1>6, <1>7, <1>8, <1>9 DEF KVInv

(* free_gpu_blocks keeps it, for a sequence that is swapped out. *)
LEMMA FreeGpuBlocksKVInv ==
    ASSUME KVInv, NEW s \in swapped, FreeGpuBlocks(s)
    PROVE  KVInv'
<1>1. /\ free' = free \cup Owned(s)
      /\ blocks' = [blocks EXCEPT ![s] = <<>>]
      /\ UNCHANGED <<known, tokens, swapped, buffer, saved, data>>
      /\ s \in known /\ s \in Seqs
  BY DEF FreeGpuBlocks, KVInv, KVTypeOK
<1>2. blocks'[s] = <<>> /\ \A t \in Seqs \ {s} : blocks'[t] = blocks[t]
  BY <1>1 DEF KVInv, KVTypeOK
<1>3. \A b \in free' : b \in free \/ \E i \in 1 .. Len(blocks[s]) : b = blocks[s][i]
  BY <1>1 DEF Owned
<1>4. KVTypeOK'
  <2>1. free' \subseteq Blocks
    BY <1>1, <1>3 DEF KVInv, KVTypeOK
  <2>2. QED
    BY <1>1, <2>1 DEF KVInv, KVTypeOK
<1>5. BlockOwnership'
  <2>1. SUFFICES ASSUME NEW t \in Seqs, NEW u \in Seqs,
                        NEW i \in 1 .. Len(blocks'[t]), NEW j \in 1 .. Len(blocks'[u])
                 PROVE  /\ blocks'[t][i] \notin free'
                        /\ blocks'[t][i] = blocks'[u][j] => t = u /\ i = j
    BY DEF BlockOwnership
  <2>2. t # s /\ u # s
    BY <1>2, <2>1
  <2>3. blocks'[t] = blocks[t] /\ blocks'[u] = blocks[u]
    BY <1>2, <2>2
  <2>4. blocks[t][i] \notin free'
    BY <1>1, <1>3, <2>1, <2>2, <2>3 DEF KVInv, BlockOwnership
  <2>5. QED
    BY <2>1, <2>3, <2>4 DEF KVInv, BlockOwnership
<1>6. BufferFitsTable'
  BY <1>1, <1>2 DEF KVInv, BufferFitsTable
<1>7. NoExcessBlocks'
  <2>1. CeilDiv(tokens[s], BlockSize) \in Nat
    BY <1>1, CeilDivFacts DEF KVInv, KVTypeOK
  <2>2. QED
    BY <1>1, <1>2, <2>1 DEF KVInv, NoExcessBlocks
<1>8. NothingLeftBehind'
  BY <1>1, <1>2 DEF KVInv, NothingLeftBehind
<1>9. QED
  BY <1>4, <1>5, <1>6, <1>7, <1>8 DEF KVInv

(* swap_out keeps it. *)
LEMMA SwapOutKVInv ==
    ASSUME KVInv, NEW s \in Seqs, SwapOut(s)
    PROVE  KVInv'
<1>1. /\ saved' = [saved EXCEPT ![s] = tokens[s]]
      /\ buffer' = IF blocks[s] = <<>> THEN buffer
                   ELSE [buffer EXCEPT ![s] = GpuContent(s)]
      /\ swapped' = swapped \cup {s}
      /\ UNCHANGED <<free, known, blocks, tokens, data>>
      /\ s \in known /\ s \notin swapped
  BY DEF SwapOut
<1>2. blocks[s] \in Seq(Blocks) /\ data \in [Blocks -> Data] /\ tokens[s] \in Nat
  BY DEF KVInv, KVTypeOK
<1>3. \A i \in 1 .. Len(blocks[s]) : data[blocks[s][i]] \in Data
  BY <1>2
<1>4. /\ GpuContent(s) \in Seq(Data)
      /\ Len(GpuContent(s)) = Len(blocks[s])
  BY <1>2, <1>3 DEF GpuContent
<1>5. buffer[s] = None
  BY <1>1 DEF KVInv, BufferFitsTable
<1>6. KVTypeOK'
  BY <1>1, <1>2, <1>4 DEF KVInv, KVTypeOK
<1>7. BlockOwnership'
  BY <1>1 DEF KVInv, BlockOwnership
<1>8. BufferFitsTable'
  <2>1. blocks[s] # <<>> => Len(blocks[s]) > 0
    BY <1>2
  <2>2. ASSUME NEW t \in Seqs \ {s}
        PROVE  buffer'[t] = buffer[t]
    BY <1>1 DEF KVInv, KVTypeOK
  <2>3. CASE blocks[s] = <<>>
    BY <1>1, <1>5, <2>3 DEF KVInv, BufferFitsTable
  <2>4. CASE blocks[s] # <<>>
    <3>1. buffer'[s] = GpuContent(s)
      BY <1>1, <2>4 DEF KVInv, KVTypeOK
    <3>2. QED
      BY <1>1, <1>4, <2>1, <2>2, <2>4, <3>1 DEF KVInv, BufferFitsTable
  <2>5. QED
    BY <2>3, <2>4
<1>9. NoExcessBlocks'
  <2>1. saved'[s] = tokens[s] /\ \A t \in Seqs \ {s} : saved'[t] = saved[t]
    BY <1>1 DEF KVInv, KVTypeOK
  <2>2. CASE blocks[s] = <<>>
    BY <1>1, <1>5, <2>1, <2>2 DEF KVInv, NoExcessBlocks
  <2>3. CASE blocks[s] # <<>>
    <3>1. buffer'[s] = GpuContent(s) /\ \A t \in Seqs \ {s} : buffer'[t] = buffer[t]
      BY <1>1, <2>3 DEF KVInv, KVTypeOK
    <3>2. QED
      BY <1>1, <1>4, <2>1, <3>1 DEF KVInv, NoExcessBlocks
  <2>4. QED
    BY <2>2, <2>3
<1>10. NothingLeftBehind'
  BY <1>1 DEF KVInv, KVTypeOK, NothingLeftBehind
<1>11. QED
  BY <1>6, <1>7, <1>8, <1>9, <1>10 DEF KVInv

(* Copying a buffer into as many blocks stores data only. *)
LEMMA RestoredType ==
    ASSUME KVTypeOK, NEW s \in Seqs, buffer[s] # None,
           NEW q \in Seq(Blocks), Len(q) = Len(buffer[s])
    PROVE  Restored(s, q) \in [Blocks -> Data]
<1>1. buffer[s] \in Seq(Data) /\ data \in [Blocks -> Data]
  BY DEF KVTypeOK
<1>2. DOMAIN q = 1 .. Len(buffer[s])
  OBVIOUS
<1>3. \A i \in DOMAIN q : buffer[s][i] \in Data
  BY <1>1, <1>2
<1>4. ASSUME NEW b \in Blocks, \E i \in DOMAIN q : q[i] = b
      PROVE  (CHOOSE i \in DOMAIN q : q[i] = b) \in DOMAIN q
  BY <1>4
<1>5. QED
  BY <1>1, <1>3, <1>4 DEF Restored

(* swap_in keeps it, with and without a buffer, with and without blocks. *)
LEMMA SwapInKVInv ==
    ASSUME KVInv, NEW s \in Seqs, SwapIn(s)
    PROVE  KVInv'
<1>1. /\ buffer' = [buffer EXCEPT ![s] = None]
      /\ saved' = [saved EXCEPT ![s] = 0]
      /\ swapped' = swapped \ {s}
      /\ known' = known
      /\ s \in known /\ s \in swapped
  BY DEF SwapIn
<1>2. buffer'[s] = None /\ \A t \in Seqs \ {s} : buffer'[t] = buffer[t] /\ saved'[t] = saved[t]
  BY <1>1 DEF KVInv, KVTypeOK
<1>3. CASE UNCHANGED <<free, blocks, tokens>> /\ data' \in [Blocks -> Data]
  <2>1. KVTypeOK'
    BY <1>1, <1>3 DEF KVInv, KVTypeOK
  <2>2. BlockOwnership'
    BY <1>3 DEF KVInv, BlockOwnership
  <2>3. BufferFitsTable'
    BY <1>1, <1>2, <1>3 DEF KVInv, BufferFitsTable
  <2>4. NoExcessBlocks'
    BY <1>2, <1>3 DEF KVInv, NoExcessBlocks
  <2>5. NothingLeftBehind'
    BY <1>1, <1>2, <1>3 DEF KVInv, NothingLeftBehind
  <2>6. QED
    BY <2>1, <2>2, <2>3, <2>4, <2>5 DEF KVInv
<1>4. CASE buffer[s] # None /\ blocks[s] = <<>>
  <2> DEFINE n == Len(buffer[s])
  <2>1. buffer[s] \in Seq(Data) /\ n \in Nat
    BY <1>4 DEF KVInv, KVTypeOK
  <2>2. PICK q \in Allocations(n) :
           /\ free' = free \ {q[i] : i \in DOMAIN q}
           /\ blocks' = [blocks EXCEPT ![s] = q]
           /\ data' = Restored(s, q)
    BY <1>4 DEF SwapIn
  <2>3. tokens' = [tokens EXCEPT ![s] = saved[s]]
    BY <1>4 DEF SwapIn
  <2>4. q \in Seq(Blocks) /\ Len(q) = n
    BY <2>1, AllocationFacts DEF KVInv
  <2>5. data' \in [Blocks -> Data]
    BY <1>4, <2>2, <2>4, RestoredType DEF KVInv
  <2>6. KVTypeOK'
    BY <1>1, <2>2, <2>3, <2>4, <2>5 DEF KVInv, KVTypeOK
  <2>7. BlockOwnership'
    BY <2>1, <2>2, GrantKeepsOwnership DEF KVInv
  <2>8. blocks'[s] = q /\ tokens'[s] = saved[s]
        /\ \A t \in Seqs \ {s} : blocks'[t] = blocks[t] /\ tokens'[t] = tokens[t]
    BY <2>2, <2>3 DEF KVInv, KVTypeOK
  <2>9. BufferFitsTable'
    BY <1>1, <1>2, <2>8 DEF KVInv, BufferFitsTable
  <2>10. NoExcessBlocks'
    BY <1>2, <1>4, <2>4, <2>8 DEF KVInv, NoExcessBlocks
  <2>11. NothingLeftBehind'
    BY <1>1, <1>2, <2>8 DEF KVInv, NothingLeftBehind
  <2>12. QED
    BY <2>6, <2>7, <2>9, <2>10, <2>11 DEF KVInv
<1>5. CASE buffer[s] # None /\ blocks[s] # <<>>
  <2>1. UNCHANGED <<free, blocks, tokens>> /\ data' = Restored(s, blocks[s])
    BY <1>5 DEF SwapIn
  <2>2. blocks[s] \in Seq(Blocks) /\ Len(blocks[s]) = Len(buffer[s])
    BY <1>5 DEF KVInv, KVTypeOK, BufferFitsTable
  <2>3. data' \in [Blocks -> Data]
    BY <1>5, <2>1, <2>2, RestoredType DEF KVInv
  <2>4. QED
    BY <1>3, <2>1, <2>3
<1>6. CASE buffer[s] = None
  BY <1>3, <1>6 DEF SwapIn, KVInv, KVTypeOK
<1>7. QED
  BY <1>4, <1>5, <1>6

(* The three operations that touch one structure: a failed swap_in, a      *)
(* failed allocate_sequence and a store by the attention kernels.          *)
LEMMA SwapInFailsKVInv ==
    ASSUME KVInv, NEW s \in Seqs, SwapInFails(s)
    PROVE  KVInv'
<1>1. /\ buffer' = [buffer EXCEPT ![s] = None]
      /\ saved' = [saved EXCEPT ![s] = 0]
      /\ UNCHANGED <<free, known, blocks, tokens, swapped, data>>
  BY DEF SwapInFails
<1>2. /\ buffer'[s] = None /\ saved'[s] = 0
      /\ \A t \in Seqs \ {s} : buffer'[t] = buffer[t] /\ saved'[t] = saved[t]
  BY <1>1 DEF KVInv, KVTypeOK
<1>3. KVTypeOK'
  BY <1>1 DEF KVInv, KVTypeOK
<1>4. BlockOwnership'
  BY <1>1 DEF KVInv, BlockOwnership
<1>5. BufferFitsTable' /\ NoExcessBlocks' /\ NothingLeftBehind'
  BY <1>1, <1>2 DEF KVInv, BufferFitsTable, NoExcessBlocks, NothingLeftBehind
<1>6. QED
  BY <1>3, <1>4, <1>5 DEF KVInv

(* A failed allocate_sequence takes blocks away from everyone: it breaks no *)
(* invariant of the tables that exist.                                      *)
LEMMA AllocateSequenceFailsKVInv ==
    ASSUME KVInv, NEW s \in Seqs, NEW n \in Nat, AllocateSequenceFails(s, n)
    PROVE  KVInv'
<1>1. free' = {} /\ UNCHANGED <<known, blocks, tokens, swapped, buffer, saved, data>>
  BY DEF AllocateSequenceFails
<1>2. KVTypeOK'
  BY <1>1 DEF KVInv, KVTypeOK
<1>3. BlockOwnership' /\ BufferFitsTable' /\ NoExcessBlocks' /\ NothingLeftBehind'
  BY <1>1 DEF KVInv, BlockOwnership, BufferFitsTable, NoExcessBlocks, NothingLeftBehind
<1>4. QED
  BY <1>2, <1>3 DEF KVInv

(* A store by the attention kernels changes contents only. *)
LEMMA WriteBlockKVInv ==
    ASSUME KVInv, NEW s \in Seqs, NEW i \in 1 .. Len(blocks[s]), NEW v \in Data,
           WriteBlock(s, i, v)
    PROVE  KVInv'
<1>1. /\ data' = [data EXCEPT ![blocks[s][i]] = v]
      /\ UNCHANGED <<free, known, blocks, tokens, swapped, buffer, saved>>
  BY DEF WriteBlock
<1>2. KVTypeOK'
  BY <1>1 DEF KVInv, KVTypeOK
<1>3. BlockOwnership' /\ BufferFitsTable' /\ NoExcessBlocks' /\ NothingLeftBehind'
  BY <1>1 DEF KVInv, BlockOwnership, BufferFitsTable, NoExcessBlocks, NothingLeftBehind
<1>4. QED
  BY <1>2, <1>3 DEF KVInv

(* A step that leaves the cache alone keeps its invariant. *)
LEMMA StutterKVInv ==
    ASSUME KVInv, UNCHANGED kvVars
    PROVE  KVInv'
<1>1. UNCHANGED <<free, known, blocks, tokens, swapped, buffer, saved, data>>
  BY DEF kvVars
<1>2. KVTypeOK'
  BY <1>1 DEF KVInv, KVTypeOK
<1>3. BlockOwnership' /\ BufferFitsTable' /\ NoExcessBlocks' /\ NothingLeftBehind'
  BY <1>1 DEF KVInv, BlockOwnership, BufferFitsTable, NoExcessBlocks, NothingLeftBehind
<1>4. QED
  BY <1>2, <1>3 DEF KVInv

(* Every call the cache receives keeps the inductive invariant. *)
LEMMA NextKVInv == KVInv /\ [KVNext]_kvVars => KVInv'
<1> SUFFICES ASSUME KVInv, [KVNext]_kvVars PROVE KVInv'
  OBVIOUS
<1> USE MaxTokensAssumption
<1>1. ASSUME NEW s \in Seqs, NEW n \in 0 .. MaxTokens, AllocateSequence(s, n) PROVE KVInv'
  BY <1>1, AllocateSequenceKVInv
<1>2. ASSUME NEW s \in Seqs, NEW n \in 0 .. MaxTokens, AllocateSequenceFails(s, n) PROVE KVInv'
  BY <1>2, AllocateSequenceFailsKVInv
<1>3. ASSUME NEW s \in Seqs, s \notin swapped, AppendToken(s) PROVE KVInv'
  BY <1>3, AppendTokenKVInv
<1>4. ASSUME NEW S \in SUBSET Seqs, FreeSequences(S) PROVE KVInv'
  BY <1>4, FreeSequencesKVInv
<1>5. ASSUME NEW s \in Seqs, s \in swapped, FreeGpuBlocks(s) PROVE KVInv'
  BY <1>5, FreeGpuBlocksKVInv
<1>6. ASSUME NEW s \in Seqs, SwapOut(s) PROVE KVInv'
  BY <1>6, SwapOutKVInv
<1>7. ASSUME NEW s \in Seqs, SwapIn(s) PROVE KVInv'
  BY <1>7, SwapInKVInv
<1>8. ASSUME NEW s \in Seqs, SwapInFails(s) PROVE KVInv'
  BY <1>8, SwapInFailsKVInv
<1>9. ASSUME NEW s \in Seqs, NEW i \in 1 .. Len(blocks[s]), NEW v \in Data, WriteBlock(s, i, v)
      PROVE  KVInv'
  BY <1>9, WriteBlockKVInv
<1>10. ASSUME UNCHANGED kvVars PROVE KVInv'
  BY <1>10, StutterKVInv
<1>11. QED
  BY <1>1, <1>2, <1>3, <1>4, <1>5, <1>6, <1>7, <1>8, <1>9, <1>10 DEF KVNext, AppendTokenFails

(* Every GPU block has at most one owner at all times: no interleaving of   *)
(* allocations, appends, swaps and frees makes BlockAllocator.free raise or *)
(* lets two sequences share a block, for any pool and block size.           *)
THEOREM BlockOwnershipHolds == KVSpec => []BlockOwnership
<1>1. KVInv => BlockOwnership
  BY DEF KVInv
<1>2. QED
  BY InitKVInv, NextKVInv, <1>1, PTL DEF KVSpec

(* The buffer that swap_in copies back always has the shape of the table it *)
(* is copied into, and no table outgrows its token count; what is freed is  *)
(* freed completely.                                                        *)
THEOREM CacheInvariants ==
    KVSpec => [](KVTypeOK /\ BufferFitsTable /\ NoExcessBlocks /\ NothingLeftBehind)
<1>1. KVInv => KVTypeOK /\ BufferFitsTable /\ NoExcessBlocks /\ NothingLeftBehind
  BY DEF KVInv
<1>2. QED
  BY InitKVInv, NextKVInv, <1>1, PTL DEF KVSpec
=============================================================================
