---------------------- MODULE PagedKVCacheRefinement ----------------------
(***************************************************************************)
(* Proof that the paged KV cache implements SequenceStore: under the       *)
(* mapping StoreContent every call of the cache is a step of the store on  *)
(* one sequence, or invisible.                                             *)
(***************************************************************************)
EXTENDS PagedKVCacheProofs

(* The GPU content of a sequence is a list of data, one entry per block, *)
(* and a registered sequence is present in the store.                    *)
LEMMA ContentType ==
    ASSUME KVInv, NEW s \in Seqs
    PROVE  /\ GpuContent(s) \in Seq(Data)
           /\ Len(GpuContent(s)) = Len(blocks[s])
           /\ StoreContent[s] = IF s \notin known THEN None
                                ELSE IF buffer[s] # None THEN buffer[s]
                                ELSE GpuContent(s)
           /\ s \in known => StoreContent[s] \in Seq(Data) /\ StoreContent[s] # None
<1>1. blocks[s] \in Seq(Blocks) /\ data \in [Blocks -> Data]
  BY DEF KVInv, KVTypeOK
<1>2. \A i \in 1 .. Len(blocks[s]) : data[blocks[s][i]] \in Data
  BY <1>1
<1>3. GpuContent(s) \in Seq(Data) /\ Len(GpuContent(s)) = Len(blocks[s])
  BY <1>1, <1>2 DEF GpuContent
<1>4. StoreContent[s] = IF s \notin known THEN None
                        ELSE IF buffer[s] # None THEN buffer[s] ELSE GpuContent(s)
  BY DEF StoreContent
<1>5. buffer[s] # None => buffer[s] \in Seq(Data)
  BY DEF KVInv, KVTypeOK
<1>6. QED
  BY <1>3, <1>4, <1>5, NoneAssumption

(* A sequence whose blocks, contents, buffer and registration do not change *)
(* keeps its place in the store.                                            *)
LEMMA Frame ==
    ASSUME KVInv, NEW t \in Seqs,
           blocks'[t] = blocks[t], buffer'[t] = buffer[t],
           t \in known' <=> t \in known,
           \A i \in 1 .. Len(blocks[t]) : data'[blocks[t][i]] = data[blocks[t][i]]
    PROVE  StoreContent'[t] = StoreContent[t]
<1>1. GpuContent(t)' = GpuContent(t)
  BY DEF GpuContent
<1>2. QED
  BY <1>1 DEF StoreContent

(* A step that changes the store of s alone, as a function update. *)
LEMMA OneSequence ==
    ASSUME NEW s \in Seqs, \A t \in Seqs \ {s} : StoreContent'[t] = StoreContent[t]
    PROVE  StoreContent' = [StoreContent EXCEPT ![s] = StoreContent'[s]]
<1>1. /\ StoreContent = [t \in Seqs |-> StoreContent[t]]
      /\ StoreContent' = [t \in Seqs |-> StoreContent'[t]]
  BY DEF StoreContent
<1>2. QED
  BY <1>1

(* A step that changes the store of nobody. *)
LEMMA Invisible ==
    ASSUME \A t \in Seqs : StoreContent'[t] = StoreContent[t]
    PROVE  StoreContent' = StoreContent
<1>1. /\ StoreContent = [t \in Seqs |-> StoreContent[t]]
      /\ StoreContent' = [t \in Seqs |-> StoreContent'[t]]
  BY DEF StoreContent
<1>2. QED
  BY <1>1

-----------------------------------------------------------------------------
(* allocate_sequence creates the sequence. *)
LEMMA AllocateSequenceRefines ==
    ASSUME KVInv, NEW s \in Seqs, NEW n \in Nat, AllocateSequence(s, n)
    PROVE  Store!Create(s)
<1>1. KVInv'
  BY AllocateSequenceKVInv
<1>2. PICK q \in Allocations(CeilDiv(n, BlockSize)) : blocks' = [blocks EXCEPT ![s] = q]
  BY DEF AllocateSequence
<1>3. /\ known' = known \cup {s} /\ s \notin known
      /\ UNCHANGED <<buffer, data>>
  BY DEF AllocateSequence
<1>4. \A t \in Seqs \ {s} : StoreContent'[t] = StoreContent[t]
  BY <1>2, <1>3, Frame DEF KVInv, KVTypeOK
<1>5. StoreContent[s] = None
  BY <1>3, ContentType
<1>6. StoreContent'[s] \in Seq(Data)
  <2>1. buffer'[s] = None
    BY <1>3 DEF KVInv, NothingLeftBehind
  <2>2. blocks'[s] \in Seq(Blocks) /\ data' \in [Blocks -> Data]
    BY <1>1 DEF KVInv, KVTypeOK
  <2>3. \A i \in 1 .. Len(blocks'[s]) : data'[blocks'[s][i]] \in Data
    BY <2>2
  <2>4. GpuContent(s)' \in Seq(Data)
    BY <2>2, <2>3 DEF GpuContent
  <2>5. QED
    BY <1>3, <2>1, <2>4 DEF StoreContent
<1>7. QED
  BY <1>4, <1>5, <1>6, OneSequence DEF Store!Create, Store!Present

(* append_tokens extends the sequence at a block boundary and is invisible *)
(* otherwise.                                                              *)
LEMMA AppendTokenRefines ==
    ASSUME KVInv, NEW s \in Seqs \ swapped, AppendToken(s)
    PROVE  Store!Extend(s) \/ StoreContent' = StoreContent
<1>1. UNCHANGED <<known, buffer, data>> /\ s \in known
  BY DEF AppendToken
<1>2. CASE tokens[s] % BlockSize # 0
  <2>1. blocks' = blocks
    BY <1>2 DEF AppendToken
  <2>2. \A t \in Seqs : StoreContent'[t] = StoreContent[t]
    BY <1>1, <2>1, Frame
  <2>3. QED
    BY <2>2, Invisible
<1>3. CASE tokens[s] % BlockSize = 0
  <2>1. PICK q \in Allocations(1) : blocks' = [blocks EXCEPT ![s] = Append(blocks[s], q[1])]
    BY <1>3 DEF AppendToken
  <2>2. q[1] \in free /\ q[1] \in Blocks
    BY AllocationFacts DEF KVInv, KVTypeOK
  <2>3. \A t \in Seqs \ {s} : StoreContent'[t] = StoreContent[t]
    BY <1>1, <2>1, Frame DEF KVInv, KVTypeOK
  <2>4. blocks[s] \in Seq(Blocks) /\ data \in [Blocks -> Data] /\ buffer[s] = None
    BY DEF KVInv, KVTypeOK, BufferFitsTable
  <2>5. blocks'[s] = Append(blocks[s], q[1])
    BY <2>1 DEF KVInv, KVTypeOK
  <2>6. \A i \in 1 .. Len(blocks[s]) : data[blocks[s][i]] \in Data
    BY <2>4
  <2>7. GpuContent(s)' = Append(GpuContent(s), data[q[1]])
    <3>1. /\ Len(blocks'[s]) = Len(blocks[s]) + 1
          /\ \A i \in 1 .. Len(blocks[s]) : blocks'[s][i] = blocks[s][i]
          /\ blocks'[s][Len(blocks[s]) + 1] = q[1]
      BY <2>2, <2>4, <2>5
    <3>2. data[q[1]] \in Data /\ Len(blocks[s]) \in Nat
      BY <2>2, <2>4
    <3>3. Append(GpuContent(s), data[q[1]]) =
             [i \in 1 .. Len(blocks[s]) + 1 |->
                 IF i = Len(blocks[s]) + 1 THEN data[q[1]] ELSE data[blocks[s][i]]]
      BY <2>6, <3>2 DEF GpuContent
    <3>4. GpuContent(s)' =
             [i \in 1 .. Len(blocks[s]) + 1 |-> data[blocks'[s][i]]]
      BY <1>1, <3>1 DEF GpuContent
    <3>5. ASSUME NEW i \in 1 .. Len(blocks[s]) + 1
          PROVE  data[blocks'[s][i]] =
                   IF i = Len(blocks[s]) + 1 THEN data[q[1]] ELSE data[blocks[s][i]]
      BY <3>1, <3>2
    <3>6. QED
      BY <3>3, <3>4, <3>5
  <2>8. StoreContent[s] = GpuContent(s) /\ StoreContent'[s] = GpuContent(s)'
    BY <1>1, <2>4 DEF StoreContent
  <2>9. StoreContent' = [StoreContent EXCEPT ![s] = Append(StoreContent[s], data[q[1]])]
    BY <2>3, <2>7, <2>8, OneSequence
  <2>10. data[q[1]] \in Data /\ StoreContent[s] # None
    BY <1>1, <2>2, <2>4, ContentType
  <2>11. QED
    BY <2>9, <2>10 DEF Store!Extend, Store!Present
<1>4. QED
  BY <1>2, <1>3

(* free_sequence drops the registered sequences and ignores any other. *)
LEMMA FreeSequencesRefines ==
    ASSUME KVInv, NEW S \in SUBSET Seqs, FreeSequences(S)
    PROVE  Store!Drop(S)
<1>1. known' = known \ S /\ data' = data
  BY DEF FreeSequences
<1>2. \A t \in Seqs \ S : StoreContent'[t] = StoreContent[t]
  <2> SUFFICES ASSUME NEW t \in Seqs \ S
               PROVE  StoreContent'[t] = StoreContent[t]
    OBVIOUS
  <2>1. blocks'[t] = blocks[t] /\ buffer'[t] = buffer[t]
    BY DEF FreeSequences
  <2>2. QED
    BY <1>1, <2>1, Frame
<1>3. \A t \in S : StoreContent'[t] = None
  BY <1>1 DEF StoreContent
<1>4. StoreContent' = [t \in Seqs |-> StoreContent'[t]]
  BY DEF StoreContent
<1>5. StoreContent' = [t \in Seqs |-> IF t \in S THEN None ELSE StoreContent[t]]
  BY <1>2, <1>3, <1>4
<1>6. QED
  BY <1>5 DEF Store!Drop

(* free_gpu_blocks is invisible for a sequence with a CPU buffer. *)
LEMMA FreeGpuBlocksRefines ==
    ASSUME KVInv, NEW s \in Seqs, s \in swapped, FreeGpuBlocks(s)
    PROVE  Store!Lose(s) \/ StoreContent' = StoreContent
<1>1. /\ blocks' = [blocks EXCEPT ![s] = <<>>]
      /\ UNCHANGED <<known, buffer, data>> /\ s \in known
  BY DEF FreeGpuBlocks
<1>2. \A t \in Seqs \ {s} : StoreContent'[t] = StoreContent[t]
  BY <1>1, Frame DEF KVInv, KVTypeOK
<1>3. CASE buffer[s] # None
  <2>1. StoreContent'[s] = StoreContent[s]
    BY <1>1, <1>3 DEF StoreContent
  <2>2. QED
    BY <1>2, <2>1, Invisible
<1>4. CASE buffer[s] = None
  <2>1. blocks'[s] = <<>>
    BY <1>1 DEF KVInv, KVTypeOK
  <2>2. StoreContent'[s] = <<>>
    BY <1>1, <1>4, <2>1 DEF StoreContent, GpuContent
  <2>3. QED
    BY <1>1, <1>2, <2>2, OneSequence, ContentType DEF Store!Lose, Store!Present
<1>5. QED
  BY <1>3, <1>4

(* swap_out is invisible: the buffer takes the place of the blocks. *)
LEMMA SwapOutRefines ==
    ASSUME KVInv, NEW s \in Seqs, SwapOut(s)
    PROVE  StoreContent' = StoreContent
<1>1. /\ buffer' = IF blocks[s] = <<>> THEN buffer
                   ELSE [buffer EXCEPT ![s] = GpuContent(s)]
      /\ UNCHANGED <<known, blocks, data>>
      /\ s \in known /\ s \notin swapped
  BY DEF SwapOut
<1>2. CASE blocks[s] = <<>>
  BY <1>1, <1>2, Frame, Invisible
<1>3. CASE blocks[s] # <<>>
  <2>1. \A t \in Seqs \ {s} : StoreContent'[t] = StoreContent[t]
    BY <1>1, <1>3, Frame DEF KVInv, KVTypeOK
  <2>2. buffer'[s] = GpuContent(s) /\ buffer[s] = None
    BY <1>1, <1>3 DEF KVInv, KVTypeOK, BufferFitsTable
  <2>3. GpuContent(s) # None
    BY ContentType, NoneAssumption
  <2>4. StoreContent'[s] = StoreContent[s]
    BY <1>1, <2>2, <2>3 DEF StoreContent
  <2>5. QED
    BY <2>1, <2>4, Invisible
<1>4. QED
  BY <1>2, <1>3

(* Copying the buffer of s into different blocks that nobody else owns puts *)
(* exactly the buffer there and disturbs no other sequence.                 *)
LEMMA RestoredFacts ==
    ASSUME KVInv, NEW s \in Seqs, buffer[s] # None,
           NEW q \in Seq(Blocks), Len(q) = Len(buffer[s]),
           \A i, j \in 1 .. Len(q) : q[i] = q[j] => i = j
    PROVE  /\ [i \in 1 .. Len(q) |-> Restored(s, q)[q[i]]] = buffer[s]
           /\ \A b \in Blocks : (\A i \in 1 .. Len(q) : q[i] # b) => Restored(s, q)[b] = data[b]
<1>1. buffer[s] \in Seq(Data) /\ DOMAIN q = 1 .. Len(q)
  BY DEF KVInv, KVTypeOK
<1>2. ASSUME NEW i \in 1 .. Len(q)
      PROVE  Restored(s, q)[q[i]] = buffer[s][i]
  <2>1. q[i] \in Blocks /\ \E j \in DOMAIN q : q[j] = q[i]
    BY <1>1
  <2>2. (CHOOSE j \in DOMAIN q : q[j] = q[i]) = i
    BY <1>1, <2>1
  <2>3. QED
    BY <2>1, <2>2 DEF Restored
<1>3. [i \in 1 .. Len(q) |-> Restored(s, q)[q[i]]] = [i \in 1 .. Len(q) |-> buffer[s][i]]
  BY <1>2
<1>4. [i \in 1 .. Len(q) |-> buffer[s][i]] = buffer[s]
  BY <1>1
<1>5. ASSUME NEW b \in Blocks, \A i \in 1 .. Len(q) : q[i] # b
      PROVE  Restored(s, q)[b] = data[b]
  BY <1>1, <1>5 DEF Restored
<1>6. QED
  BY <1>3, <1>4, <1>5

(* swap_in is invisible: the sequence has, in whatever blocks it got, what *)
(* its buffer held, and nobody else's blocks changed.                      *)
LEMMA SwapInRefines ==
    ASSUME KVInv, NEW s \in Seqs, SwapIn(s)
    PROVE  StoreContent' = StoreContent
<1>1. /\ buffer' = [buffer EXCEPT ![s] = None]
      /\ known' = known /\ s \in known
  BY DEF SwapIn
<1>2. buffer'[s] = None /\ \A t \in Seqs \ {s} : buffer'[t] = buffer[t]
  BY <1>1 DEF KVInv, KVTypeOK
<1>3. CASE buffer[s] = None
  <2>1. UNCHANGED <<blocks, data>> /\ \A t \in Seqs : buffer'[t] = buffer[t]
    BY <1>2, <1>3 DEF SwapIn
  <2>2. QED
    BY <1>1, <2>1, Frame, Invisible
<1>4. ASSUME buffer[s] # None,
             NEW q \in Seq(Blocks), Len(q) = Len(buffer[s]),
             \A i, j \in 1 .. Len(q) : q[i] = q[j] => i = j,
             \A t \in Seqs \ {s} : \A j \in 1 .. Len(blocks[t]) : \A i \in 1 .. Len(q) :
                blocks[t][j] # q[i],
             blocks'[s] = q, \A t \in Seqs \ {s} : blocks'[t] = blocks[t],
             data' = Restored(s, q)
      PROVE  StoreContent' = StoreContent
  <2>1. GpuContent(s)' = buffer[s]
    BY <1>4, RestoredFacts DEF GpuContent
  <2>2. StoreContent'[s] = StoreContent[s]
    BY <1>1, <1>2, <1>4, <2>1 DEF StoreContent
  <2>3. ASSUME NEW t \in Seqs \ {s}
        PROVE  StoreContent'[t] = StoreContent[t]
    <3>1. blocks[t] \in Seq(Blocks)
      BY DEF KVInv, KVTypeOK
    <3>2. \A j \in 1 .. Len(blocks[t]) : blocks[t][j] \in Blocks
      BY <3>1
    <3>3. \A j \in 1 .. Len(blocks[t]) : data'[blocks[t][j]] = data[blocks[t][j]]
      <4>1. \A b \in Blocks :
               (\A i \in 1 .. Len(q) : q[i] # b) => Restored(s, q)[b] = data[b]
        BY <1>4, RestoredFacts
      <4>2. \A j \in 1 .. Len(blocks[t]) : \A i \in 1 .. Len(q) : q[i] # blocks[t][j]
        BY <1>4
      <4>3. QED
        BY <1>4, <3>2, <4>1, <4>2
    <3>4. QED
      BY <1>1, <1>2, <1>4, <3>3, Frame
  <2>4. QED
    BY <2>2, <2>3, Invisible
<1>5. CASE buffer[s] # None /\ blocks[s] = <<>>
  <2> DEFINE n == Len(buffer[s])
  <2>1. n \in Nat
    BY <1>5 DEF KVInv, KVTypeOK
  <2>2. PICK q \in Allocations(n) :
           blocks' = [blocks EXCEPT ![s] = q] /\ data' = Restored(s, q)
    BY <1>5 DEF SwapIn
  <2>3. /\ q \in Seq(Blocks) /\ Len(q) = n
        /\ \A i \in 1 .. n : q[i] \in free
        /\ \A i, j \in 1 .. n : q[i] = q[j] => i = j
    BY <2>1, AllocationFacts DEF KVInv
  <2>4. \A t \in Seqs : \A j \in 1 .. Len(blocks[t]) : blocks[t][j] \notin free
    BY DEF KVInv, BlockOwnership
  <2>5. blocks'[s] = q /\ \A t \in Seqs \ {s} : blocks'[t] = blocks[t]
    BY <2>2 DEF KVInv, KVTypeOK
  <2>6. QED
    BY <1>4, <1>5, <2>2, <2>3, <2>4, <2>5
<1>6. CASE buffer[s] # None /\ blocks[s] # <<>>
  <2>1. blocks' = blocks /\ data' = Restored(s, blocks[s])
    BY <1>6 DEF SwapIn
  <2>2. blocks[s] \in Seq(Blocks) /\ Len(blocks[s]) = Len(buffer[s])
    BY <1>6 DEF KVInv, KVTypeOK, BufferFitsTable
  <2>3. /\ \A i, j \in 1 .. Len(blocks[s]) : blocks[s][i] = blocks[s][j] => i = j
        /\ \A t \in Seqs \ {s} : \A j \in 1 .. Len(blocks[t]) : \A i \in 1 .. Len(blocks[s]) :
              blocks[t][j] # blocks[s][i]
    BY DEF KVInv, BlockOwnership
  <2>4. QED
    BY <1>4, <1>6, <2>1, <2>2, <2>3
<1>7. QED
  BY <1>3, <1>5, <1>6

(* A failed swap_in loses the entries of its own sequence only. *)
LEMMA SwapInFailsRefines ==
    ASSUME KVInv, NEW s \in Seqs, SwapInFails(s)
    PROVE  Store!Lose(s)
<1>1. /\ buffer' = [buffer EXCEPT ![s] = None]
      /\ UNCHANGED <<known, blocks, data>>
      /\ s \in known /\ blocks[s] = <<>>
  BY DEF SwapInFails
<1>2. buffer'[s] = None /\ \A t \in Seqs \ {s} : buffer'[t] = buffer[t]
  BY <1>1 DEF KVInv, KVTypeOK
<1>3. \A t \in Seqs \ {s} : StoreContent'[t] = StoreContent[t]
  BY <1>1, <1>2, Frame
<1>4. StoreContent'[s] = <<>>
  BY <1>1, <1>2 DEF StoreContent, GpuContent
<1>5. QED
  BY <1>1, <1>3, <1>4, OneSequence, ContentType DEF Store!Lose, Store!Present

(* A store by the kernels reaches the sequence it is meant for, and no other. *)
LEMMA WriteBlockRefines ==
    ASSUME KVInv, NEW s \in Seqs \ swapped, NEW i \in 1 .. Len(blocks[s]), NEW v \in Data,
           WriteBlock(s, i, v)
    PROVE  Store!Store(s)
<1>1. /\ data' = [data EXCEPT ![blocks[s][i]] = v]
      /\ UNCHANGED <<known, blocks, buffer>> /\ s \in known
  BY DEF WriteBlock
<1>2. data \in [Blocks -> Data] /\ \A t \in Seqs : blocks[t] \in Seq(Blocks)
  BY DEF KVInv, KVTypeOK
<1>3. \A t \in Seqs : \A j \in 1 .. Len(blocks[t]) : blocks[t][j] \in Blocks
  BY <1>2
<1>4. \A t \in Seqs : \A j \in 1 .. Len(blocks[t]) :
         data'[blocks[t][j]] = IF t = s /\ j = i THEN v ELSE data[blocks[t][j]]
  BY <1>1, <1>2, <1>3 DEF KVInv, BlockOwnership
<1>5. \A t \in Seqs \ {s} : StoreContent'[t] = StoreContent[t]
  BY <1>1, <1>4, Frame
<1>6. buffer[s] = None
  BY DEF KVInv, BufferFitsTable
<1>7. StoreContent[s] = GpuContent(s) /\ StoreContent'[s] = GpuContent(s)'
  BY <1>1, <1>6 DEF StoreContent
<1>8. GpuContent(s)' = [GpuContent(s) EXCEPT ![i] = v]
  <2>1. GpuContent(s)' = [j \in 1 .. Len(blocks[s]) |-> data'[blocks[s][j]]]
    BY <1>1 DEF GpuContent
  <2>2. [GpuContent(s) EXCEPT ![i] = v] =
           [j \in 1 .. Len(blocks[s]) |-> IF j = i THEN v ELSE data[blocks[s][j]]]
    BY DEF GpuContent
  <2>3. \A j \in 1 .. Len(blocks[s]) :
           data'[blocks[s][j]] = IF j = i THEN v ELSE data[blocks[s][j]]
    BY <1>4
  <2>4. QED
    BY <2>1, <2>2, <2>3
<1>9. StoreContent' = [StoreContent EXCEPT ![s][i] = v]
  BY <1>5, <1>7, <1>8, OneSequence
<1>10. i \in 1 .. Len(StoreContent[s])
  BY <1>7, ContentType
<1>11. QED
  BY <1>1, <1>9, <1>10, ContentType DEF Store!Store, Store!Present

(* The paged cache implements the store of private sequences: preemption by *)
(* swap_out, free_gpu_blocks and swap_in never mixes up, reorders or        *)
(* exposes KV entries, for any pool, block size and set of sequences.       *)
THEOREM CacheImplementsStore == KVSpec => ImplementsStore
<1> USE MaxTokensAssumption
<1>1. KVInit => Store!StoreInit
  BY DEF KVInit, Store!StoreInit, StoreContent
<1>2. KVInv /\ [KVNext]_kvVars => [Store!StoreNext]_StoreContent
  <2> SUFFICES ASSUME KVInv, [KVNext]_kvVars
               PROVE  Store!StoreNext \/ StoreContent' = StoreContent
    OBVIOUS
  <2>1. ASSUME NEW s \in Seqs, NEW n \in 0 .. MaxTokens, AllocateSequence(s, n)
        PROVE  Store!StoreNext
    BY <2>1, AllocateSequenceRefines DEF Store!StoreNext
  <2>2. ASSUME NEW s \in Seqs, NEW n \in 0 .. MaxTokens, AllocateSequenceFails(s, n)
        PROVE  StoreContent' = StoreContent
    BY <2>2, Frame, Invisible DEF AllocateSequenceFails
  <2>3. ASSUME NEW s \in Seqs, s \notin swapped, AppendToken(s)
        PROVE  Store!StoreNext \/ StoreContent' = StoreContent
    BY <2>3, AppendTokenRefines DEF Store!StoreNext
  <2>4. ASSUME NEW S \in SUBSET Seqs, FreeSequences(S)
        PROVE  Store!StoreNext
    BY <2>4, FreeSequencesRefines DEF Store!StoreNext
  <2>5. ASSUME NEW s \in Seqs, s \in swapped, FreeGpuBlocks(s)
        PROVE  Store!StoreNext \/ StoreContent' = StoreContent
    BY <2>5, FreeGpuBlocksRefines DEF Store!StoreNext
  <2>6. ASSUME NEW s \in Seqs, SwapOut(s)
        PROVE  StoreContent' = StoreContent
    BY <2>6, SwapOutRefines
  <2>7. ASSUME NEW s \in Seqs, SwapIn(s)
        PROVE  StoreContent' = StoreContent
    BY <2>7, SwapInRefines
  <2>8. ASSUME NEW s \in Seqs, SwapInFails(s)
        PROVE  Store!StoreNext
    BY <2>8, SwapInFailsRefines DEF Store!StoreNext
  <2>9. ASSUME NEW s \in Seqs, s \notin swapped,
               NEW i \in 1 .. Len(blocks[s]), NEW v \in Data, WriteBlock(s, i, v)
        PROVE  Store!StoreNext
    BY <2>9, WriteBlockRefines DEF Store!StoreNext
  <2>10. ASSUME UNCHANGED kvVars
         PROVE  StoreContent' = StoreContent
    BY <2>10, Frame, Invisible DEF kvVars
  <2>11. QED
    BY <2>1, <2>2, <2>3, <2>4, <2>5, <2>6, <2>7, <2>8, <2>9, <2>10
       DEF KVNext, AppendTokenFails
<1>3. QED
  BY <1>1, <1>2, InitKVInv, NextKVInv, PTL
     DEF KVSpec, ImplementsStore, Store!StoreSpec
=============================================================================
