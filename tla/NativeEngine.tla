---------------------------- MODULE NativeEngine ----------------------------
(***************************************************************************)
(* What _build_native_components (entrypoints/big_modeling.py) puts        *)
(* together: one KVCacheManager, used by the scheduler and by the calls of *)
(* MoE.generate, which decode one prompt through GenerationEngine          *)
(* (engine/generation_loop.py).  Everything runs in the caller's thread,   *)
(* so a generate() call and a schedule() call do not overlap.              *)
(*                                                                         *)
(* A call of generate() is the record gen: the prompt's length, the tokens *)
(* asked for and produced, whether the last was the end-of-sequence token, *)
(* the local block_table, the slots its tokens' keys and values went to    *)
(* (paged attention), and the length of _cached_past_key_values (0 is      *)
(* None), which the model uses when it has no paged attention.             *)
(***************************************************************************)
EXTENDS OffloadScheduler

CONSTANTS
    GenPrompts,    \* lengths of the prompts of generate()
    GenLimits,     \* values of max_new_tokens
    MaxSeqLength   \* the longest prompt accepted

VARIABLES gen, calls   \* calls: generate() calls made
CONSTANT MaxCalls      \* bound: generate() calls

nativeVars == <<schedVars, gen, calls>>

NoCall == [prompt |-> 0, limit |-> 0, out |-> 0, ended |-> FALSE,
           table |-> <<>>, slots |-> <<>>, past |-> 0]

NativeInit == SchedInit /\ gen = NoCall /\ calls = 0

onlyKV == <<queues, status, ids, flagged, told, index, local>>

-----------------------------------------------------------------------------
(* _compute_slot_mapping: the slots of the first n tokens, as far as the    *)
(* table reaches.                                                           *)
SlotMapping(table, n) ==
    [i \in 1 .. Min({n, Len(table) * BlockSize}) |->
        <<table[((i - 1) \div BlockSize) + 1], (i - 1) % BlockSize>>]

(* generate(): a prompt that is too long raises, and so does one there are  *)
(* not enough blocks for.                                                   *)
GenerateBegins(p, m) ==
    /\ at = "idle" /\ calls < MaxCalls
    /\ calls' = calls + 1
    /\ p > 0 /\ p <= MaxSeqLength
    /\ Len(kv.gpu.free) >= CeilDiv(p, BlockSize)
    /\ kv' = AllocateForSequence(kv, Other, CeilDiv(p, BlockSize))
    /\ gen' = [NoCall EXCEPT !.prompt = p, !.limit = m, !.table = kv'.table[Other]]
    /\ at' = "generate"
    /\ UNCHANGED onlyKV

GenerateRefused(p) ==
    /\ at = "idle" /\ calls < MaxCalls
    /\ calls' = calls + 1
    /\ p > 0 /\ p <= MaxSeqLength
    /\ Len(kv.gpu.free) < CeilDiv(p, BlockSize)
    /\ kv' = AllocateFails(kv)
    /\ UNCHANGED <<onlyKV, at, gen>>

(* The call is over, by a return or by an exception of the forward pass:    *)
(* the finally clauses free the sequence and forget the cached keys.        *)
GenerateEnds ==
    /\ kv' = FreeSequence(kv, Other)
    /\ gen' = NoCall
    /\ at' = "idle"
    /\ UNCHANGED <<onlyKV, calls>>

(* The prompt's forward pass, and the first token. *)
Prefill ==
    /\ at = "generate" /\ gen.past = 0 /\ gen.limit > 0
    /\ \E eos \in BOOLEAN :
          gen' = [gen EXCEPT !.slots = SlotMapping(gen.table, gen.prompt),
                             !.past = gen.prompt, !.out = 1, !.ended = eos]
    /\ UNCHANGED <<onlyKV, kv, at, calls>>

PrefillOnly == at = "generate" /\ gen.past = 0 /\ gen.limit <= 0 /\ GenerateEnds

ForwardRaises == at = "generate" /\ GenerateEnds

SeqLen == gen.prompt + gen.out
Decoding == at = "generate" /\ gen.out > 0 /\ ~gen.ended /\ gen.out < gen.limit
NeedsBlock == SeqLen > Len(gen.table) * BlockSize

(* One iteration of the decode loop: a block if the next token has no slot  *)
(* left, the forward pass of the last token, and a new one.                 *)
DecodeWith(k) ==
    \E eos \in BOOLEAN :
        /\ kv' = k
        /\ gen' = [gen EXCEPT !.table = k.table[Other],
                              !.slots = Append(@, Last(SlotMapping(k.table[Other], SeqLen))),
                              !.past = @ + 1, !.out = @ + 1, !.ended = eos]
        /\ UNCHANGED <<onlyKV, at, calls>>

(* Mutant: a block is appended one token late. *)
DecodeLate ==
    /\ Decoding
    /\ IF SeqLen > Len(gen.table) * BlockSize + 1
       THEN kv.gpu.free # <<>> /\ DecodeWith(AppendTokenBlock(kv, Other))
       ELSE DecodeWith(kv)

Decode ==
    /\ Decoding
    /\ IF NeedsBlock
       THEN kv.gpu.free # <<>> /\ DecodeWith(AppendTokenBlock(kv, Other))
       ELSE DecodeWith(kv)

(* The loop is left: enough tokens, the end token, or no block. *)
LoopEnds ==
    /\ at = "generate" /\ gen.out > 0
    /\ gen.ended \/ gen.out >= gen.limit \/ (NeedsBlock /\ kv.gpu.free = <<>>)
    /\ GenerateEnds

GenerateStep == Prefill \/ PrefillOnly \/ ForwardRaises \/ Decode \/ LoopEnds

NativeNext ==
    \/ SchedNext /\ UNCHANGED <<gen, calls>>
    \/ \E p \in GenPrompts : GenerateRefused(p) \/ \E m \in GenLimits : GenerateBegins(p, m)
    \/ GenerateStep

(* A call that has begun goes on: it runs in its caller's thread. *)
NativeSpec ==
    /\ NativeInit /\ [][NativeNext]_nativeVars
    /\ WF_nativeVars(ScheduleStep /\ UNCHANGED <<gen, calls>>)
    /\ WF_nativeVars(GenerateStep)

-----------------------------------------------------------------------------
Sequences == Requests \cup {Other}
References(b) == Cardinality({x \in Sequences \X (1 .. NumGpu) :
                                x[2] \in DOMAIN kv.table[x[1]] /\ kv.table[x[1]][x[2]] = b})


(* Nobody is told of blocks that are not there.  The prefix cache never     *)
(* offers a block that somebody writes other tokens to: a cached block in a *)
(* table stands for the very prefix of that table's prompt, and a           *)
(* generate() call writes to no cached block.  And ContextPilot's index     *)
(* says what the scheduler told it, and never claims blocks for a request   *)
(* that holds none, on the GPU or on the CPU.                               *)
CachedBlocksAreTheirs ==
    /\ \A h \in AllHashes : kv.gpu.map[h] # 0 =>
          /\ kv.gpu.hash[kv.gpu.map[h]] = h
          /\ kv.gpu.map[h] \notin ToSet(kv.table[Other])
          /\ \A r \in Requests : \A i \in DOMAIN kv.table[r] :
                kv.table[r][i] = kv.gpu.map[h] =>
                    i <= Len(Prompt[r].full) /\ PromptHashes(r)[i] = h
    /\ \A r \in Requests :
          /\ UseCP => index[r] = told[r]
          /\ index[r] # <<>> => kv.table[r] # <<>> \/ kv.swapped[r] # <<>>

(* The batch stays within both limits, although preemption, swap-in and     *)
(* decode each add to what admission counted; and what it schedules has its *)
(* blocks on the GPU.                                                       *)
BatchWithinLimits ==
    /\ tokens <= MaxTokens
    /\ Len(running) + Len(fresh) <= MaxSeqs
    /\ \A r \in batch : status[r] = "RUNNING" =>
          Len(kv.table[r]) = CeilDiv(PromptTokens(r), BlockSize)

(* A live request is in the queue of its status, once and in no other       *)
(* (inside schedule(), in a local list), and a swapped one has a way back:  *)
(* it is to be prefilled again, or the scheduler remembers the blocks it    *)
(* was in, and so does the manager while it holds copies of them.           *)
QueuesHoldStatuses ==
    LET places == waiting \o running \o fresh \o swappedQ \o prior IN
    /\ Len(places) = Cardinality(ToSet(places))
    /\ \A r \in Requests :
          /\ r \in ToSet(waiting) <=> status[r] = "WAITING"
          /\ r \in ToSet(running \o fresh) <=> status[r] = "RUNNING"
          /\ r \in ToSet(swappedQ \o prior) <=> status[r] = "SWAPPED"
          /\ status[r] = "SWAPPED" => r \in flagged \/ ids[r] # <<>>
          /\ kv.swapped[r] # <<>> => ids[r] = kv.swapped[r]


(* Tokens of a generate() call never share a slot, and its two records of   *)
(* what is cached, the slots and the past key values, count the same        *)
(* tokens: all but the last one produced.                                   *)
TokensKeepTheirSlots ==
    /\ \A i, j \in DOMAIN gen.slots : gen.slots[i] = gen.slots[j] => i = j
    /\ gen.out > 0 => Len(gen.slots) = SeqLen - 1 /\ gen.past = SeqLen - 1
    /\ at = "generate" => gen.table = kv.table[Other]
=============================================================================
