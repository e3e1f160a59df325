--------------------------- MODULE DeepSeekV4Ranks --------------------------
(***************************************************************************)
(* DeepSeek V4 Flash (models/deepseek_v4): one process per rank loads its  *)
(* slice of the weights and then runs the MoE layers, bringing the routed  *)
(* experts of its range to the GPU through an LRU store.  Copies are put   *)
(* on a copy stream, kernels and all_reduce on the compute stream; the     *)
(* host runs ahead of both.                                                *)
(* Stores: "official", patch_moe_with_offload's OfficialExpertHostStore;   *)
(* "provider" and "indexer", what DeepSeekV4PythonExpertExecutor is given: *)
(* HostOffloadBundleProvider or make_indexer_bundle_provider's cache.      *)
(* Loaders: "sharded", "offloaded", or "none" for the Python executor.     *)
(***************************************************************************)
EXTENDS ExpertRouting

CONSTANTS
    Setups,       \* [loader, store, cuda, world, joined, tensors, experts, max, picks, steps];
                  \* tensors: the checkpoint, <<[size, sharded, target], ...>>;
                  \* picks: what a layer's router may choose for its tokens
    NumLayers,
    Memory        \* the blocks of GPU memory, numbered

VARIABLES
    setup,        \* constant of a behaviour
    pc, why,      \* per rank: the host's place; what a load raised
    moeInit,      \* per rank: MoE.__init__ of the official module
    slices,       \* per rank: the slices of the tensors loaded so far
    step, route,  \* per rank: layers begun; the routing of each layer
    ahead, todo,  \* per rank: experts still to be prefetched, to be run
    host, gpu,    \* per rank: _host's keys; _gpu's [key, blk], oldest first
    held,         \* per rank: the block the local variables refer to
    copies, compute,    \* per rank: the two streams
    issued, copied,     \* per rank: copies put on the copy stream, and done
    memory, home, \* per rank: the key in a block; the stream it was allocated on
    y, shared     \* per rank and layer: the routed sum; the shared expert's part

loadVars == <<why, moeInit, slices>>
storeVars == <<host, gpu, held, home>>
streamVars == <<copies, compute, issued, copied, memory, y, shared>>
vars == <<setup, pc, loadVars, step, route, ahead, todo, storeVars, streamVars>>

Ranks == 0..(setup.world - 1)
Experts == 0..(setup.experts - 1)
NoBlock == -1
NoKey == <<-1, -1>>
Layer(r) == (step[r] - 1) % NumLayers
Everywhere(v) == [r \in Ranks |-> v]

Init ==
    /\ setup \in Setups
    /\ pc = Everywhere(IF setup.loader = "none" THEN "gate" ELSE "new") /\ why = Everywhere("") /\ moeInit = Everywhere("original")
    /\ slices = Everywhere(<<>>) /\ step = Everywhere(0) /\ route = <<>>
    /\ ahead = Everywhere(<<>>) /\ todo = Everywhere(<<>>)
    /\ host = Everywhere({}) /\ gpu = Everywhere(<<>>) /\ held = Everywhere(NoBlock)
    /\ copies = Everywhere(<<>>) /\ compute = Everywhere(<<>>)
    /\ issued = Everywhere(0) /\ copied = Everywhere(0)
    /\ memory = Everywhere([b \in Memory |-> NoKey]) /\ home = Everywhere([b \in Memory |-> "none"])
    /\ y = Everywhere(<<>>) /\ shared = Everywhere(<<>>)

-----------------------------------------------------------------------------
(* Loading. *)

Go(r, to) == pc' = [pc EXCEPT ![r] = to]
Raise(r, reason) == Go(r, "raised") /\ why' = [why EXCEPT ![r] = reason]
LoadOnly == UNCHANGED <<setup, step, route, ahead, todo, storeVars, streamVars>>

(* The process group must be the one the caller named. *)
Joined(r) ==
    \/ setup.loader = "offloaded"
    \/ IF setup.joined[r] = "none" THEN setup.world = 1 /\ r = 0 ELSE setup.joined[r] = "same"

LoadBegin(r) ==
    /\ pc[r] = "new"
    /\ IF Joined(r) THEN Go(r, "build") /\ moeInit' = [moeInit EXCEPT ![r] = "null"] /\ UNCHANGED why
       ELSE Raise(r, "joined") /\ UNCHANGED moeInit
    /\ UNCHANGED slices /\ LoadOnly

(* Transformer(margs), with MoE.__init__ replaced; the finally puts it back. *)
LoadBuild(r) ==
    /\ pc[r] = "build"
    /\ (Go(r, "verify") /\ UNCHANGED why) \/ Raise(r, "build")
    /\ moeInit' = [moeInit EXCEPT ![r] = "original"]
    /\ UNCHANGED slices /\ LoadOnly

(* The official MoE's own numbers. *)
NumLocal == setup.experts \div setup.world
StartIdx(r) == r * NumLocal
EndIdx(r) == StartIdx(r) + NumLocal

(* Mutant: the range is taken to end with the last expert. *)
RangesToTheEnd(r) == NumLocal * setup.world = setup.experts /\ EndIdx(r) = setup.experts

(* _verify_local_expert_ranges *)
RangesVerified(r) ==
    /\ NumLocal * setup.world = setup.experts
    /\ StartIdx(r) = r * NumLocal /\ EndIdx(r) = r * NumLocal + NumLocal

LoadVerify(r) ==
    /\ pc[r] = "verify"
    /\ IF setup.loader = "offloaded" \/ RangesVerified(r) THEN Go(r, "weights") /\ UNCHANGED why ELSE Raise(r, "ranges")
    /\ UNCHANGED <<moeInit, slices>> /\ LoadOnly

(* _shard_tensor *)
ShardTensor(t, r) ==
    IF ~t.sharded \/ setup.world = 1 THEN [ok |-> TRUE, from |-> 0, to |-> t.size]
    ELSE LET n == t.size \div setup.world
         IN [ok |-> t.size % setup.world = 0, from |-> r * n, to |-> r * n + n]

(* The size of the rank's own parameter: the official module divides the    *)
(* dimension it shards.                                                     *)
TargetSize(t) == t.target \div (IF t.sharded THEN setup.world ELSE 1)

(* The iteration of _load_non_expert_weights_sharded for the next tensor. *)
LoadWeight(r) ==
    /\ pc[r] = "weights" /\ Len(slices[r]) < Len(setup.tensors)
    /\ setup.loader = "sharded"
    /\ LET t == setup.tensors[Len(slices[r]) + 1]
           s == ShardTensor(t, r)
       IN IF s.ok /\ s.to - s.from = TargetSize(t)
          THEN slices' = [slices EXCEPT ![r] = Append(@, <<s.from, s.to>>)] /\ UNCHANGED <<pc, why>>
          ELSE Raise(r, "weights") /\ UNCHANGED slices
    /\ UNCHANGED moeInit /\ LoadOnly

(* The same of load_offloaded_v4_flash: a tensor of another shape is        *)
(* skipped.                                                                 *)
LoadOffloadedWeight(r) ==
    /\ pc[r] = "weights" /\ Len(slices[r]) < Len(setup.tensors) /\ setup.loader = "offloaded"
    /\ LET t == setup.tensors[Len(slices[r]) + 1]
       IN slices' = [slices EXCEPT ![r] = Append(@, IF t.size = TargetSize(t) THEN <<0, t.size>> ELSE <<0, 0>>)]
    /\ UNCHANGED <<pc, why, moeInit>> /\ LoadOnly

LoadDone(r) ==
    /\ pc[r] = "weights" /\ Len(slices[r]) = Len(setup.tensors) /\ Go(r, "gate")
    /\ UNCHANGED loadVars /\ LoadOnly

LoadStep(r) ==
    \/ LoadBegin(r) \/ LoadBuild(r) \/ LoadVerify(r) \/ LoadWeight(r)
    \/ LoadOffloadedWeight(r) \/ LoadDone(r)

-----------------------------------------------------------------------------
(* The GPU: two in-order streams over blocks of memory.  An operation of    *)
(* the compute stream runs once `after' copies of the copy stream are done. *)

Copy(key, blk, after) == [op |-> "copy", key |-> key, blk |-> blk, layer |-> 0, after |-> after]
Run(key, blk, n, after) == [op |-> "run", key |-> key, blk |-> blk, layer |-> n, after |-> after]
Step(op, n) == [op |-> op, key |-> NoKey, blk |-> NoBlock, layer |-> n, after |-> 0]

Runnable(r) == compute[r] # <<>> /\ Head(compute[r]).after <= copied[r]
Routed(r, n, e) ==
    IF setup.store = "official" THEN AddByRank(Experts, route[n], y[r][n], e)
    ELSE [t \in DOMAIN route[n] |->
            [y[r][n][t] EXCEPT ![e] = @ + DeepseekV4Route(Experts, route[n][t]).weight[e]]]

CopyDone(r) ==
    /\ copies[r] # <<>>
    /\ memory' = [memory EXCEPT ![r][Head(copies[r]).blk] = Head(copies[r]).key]
    /\ copies' = [copies EXCEPT ![r] = Tail(@)] /\ copied' = [copied EXCEPT ![r] = @ + 1]
    /\ UNCHANGED <<setup, pc, loadVars, step, route, ahead, todo, storeVars, compute, issued, y, shared>>

KernelDone(r) ==
    /\ Runnable(r) /\ Head(compute[r]).op # "reduce" /\ compute' = [compute EXCEPT ![r] = Tail(@)]
    /\ LET k == Head(compute[r])
       IN /\ memory' = IF k.op = "copy" THEN [memory EXCEPT ![r][k.blk] = k.key] ELSE memory
          /\ y' = IF k.op = "run" THEN [y EXCEPT ![r][k.layer] = Routed(r, k.layer, k.key[2])] ELSE y
          /\ shared' = IF k.op = "shared" THEN [shared EXCEPT ![r][k.layer] = @ + 1] ELSE shared
    /\ UNCHANGED <<setup, pc, loadVars, step, route, ahead, todo, storeVars, copies, issued, copied>>

(* all_reduce(y), once every rank's compute stream has come to it. *)
Sum(f) == MapThenSumSet(LAMBDA r : f[r], Ranks)
AllReduce ==
    /\ \A r \in Ranks : compute[r] # <<>> /\ Head(compute[r]).op = "reduce"
    /\ compute' = [r \in Ranks |-> Tail(compute[r])]
    /\ LET n == Head(compute[0]).layer
           total == [t \in DOMAIN route[n] |-> [e \in Experts |-> Sum([r \in Ranks |-> y[r][n][t][e]])]]
       IN /\ y' = [r \in Ranks |-> [y[r] EXCEPT ![n] = total]]
          /\ shared' = [r \in Ranks |-> [shared[r] EXCEPT ![n] = Sum([q \in Ranks |-> shared[q][n]])]]
    /\ UNCHANGED <<setup, pc, loadVars, step, route, ahead, todo, storeVars, copies, issued, copied, memory>>

-----------------------------------------------------------------------------
(* The expert stores. *)

Keys(r) == {gpu[r][i].key : i \in DOMAIN gpu[r]}
Find(r, key) == CHOOSE i \in DOMAIN gpu[r] : gpu[r][i].key = key

MoveToEnd(g, i) == Append(RemoveAt(g, i), g[i])

EvictIfNeeded(g) == SubSeq(g, Max({Len(g) - setup.max, 0}) + 1, Len(g))

(* The caching allocator: the lowest block of the current stream that       *)
(* nobody refers to, else a new one.                                        *)
Live(r) == {gpu[r][i].blk : i \in DOMAIN gpu[r]} \cup {held[r]}
Allocate(r, stream) ==
    LET free == {b \in Memory \ Live(r) : home[r][b] = stream}
    IN Min(IF free # {} THEN free ELSE {b \in Memory : home[r][b] = "none"})

Compute(r, ops) == compute' = [compute EXCEPT ![r] = @ \o ops]
Resident(r, g) == gpu' = [gpu EXCEPT ![r] = g]

Took(r, key, b, stream) ==
    /\ home' = [home EXCEPT ![r][b] = stream] /\ host' = [host EXCEPT ![r] = @ \cup {key}]

-----------------------------------------------------------------------------
(* A layer. *)

(* Mutant: the host never waits. *)
NeverSynced(r) == TRUE

(* counts.tolist() and torch.where wait for the compute stream. *)
Synced(r) == compute[r] = <<>>

LocalExperts(r) ==
    IF setup.store = "official" THEN StartIdx(r)..(EndIdx(r) - 1) ELSE Experts
Active(r, s) ==
    SetToSortSeq({e \in LocalExperts(r) : \E t \in DOMAIN s : e \in Range(s[t])}, <)

(* The gate and the list of active experts; every rank computes the same    *)
(* routing from the same hidden states.                                     *)
Gate(r) ==
    /\ pc[r] = "gate" /\ step[r] < setup.steps /\ Synced(r)
    /\ IF Len(route) > step[r] THEN UNCHANGED route
       ELSE \E s \in setup.picks : route' = Append(route, s)
    /\ LET s == route'[step[r] + 1]
       IN /\ todo' = [todo EXCEPT ![r] = Active(r, s)] /\ ahead' = [ahead EXCEPT ![r] = Active(r, s)]
          /\ y' = [y EXCEPT ![r] = Append(@, Zeros(Experts, s))]
          /\ shared' = [shared EXCEPT ![r] = Append(@, 0)]
    /\ step' = [step EXCEPT ![r] = @ + 1]
    /\ Go(r, IF setup.store = "official" THEN "prefetch" ELSE "expert")
    /\ UNCHANGED <<setup, loadVars, storeVars, copies, compute, issued, copied, memory>>

LayerOnly == UNCHANGED <<setup, loadVars, step, route, copied, memory, y, shared>>

(* prefetch, for its next expert: a new one is copied on the copy stream.   *)
PrefetchNext(r) ==
    /\ pc[r] = "prefetch" /\ setup.cuda /\ ahead[r] # <<>>
    /\ ahead' = [ahead EXCEPT ![r] = Tail(@)]
    /\ LET key == <<Layer(r), Head(ahead[r])>>
       IN IF key \in Keys(r)
          THEN Resident(r, MoveToEnd(gpu[r], Find(r, key))) /\ UNCHANGED <<home, host, copies, issued>>
          ELSE LET b == Allocate(r, "copy") IN
                 /\ Resident(r, Append(gpu[r], [key |-> key, blk |-> b])) /\ Took(r, key, b, "copy")
                 /\ copies' = [copies EXCEPT ![r] = Append(@, Copy(key, b, 0))]
                 /\ issued' = [issued EXCEPT ![r] = @ + 1]
    /\ UNCHANGED <<pc, todo, held, compute>> /\ LayerOnly

(* The end of prefetch; without CUDA, all of it. *)
PrefetchEvicts(r) ==
    /\ pc[r] = "prefetch" /\ (ahead[r] = <<>> \/ ~setup.cuda)
    /\ Resident(r, IF setup.cuda THEN EvictIfNeeded(gpu[r]) ELSE gpu[r])
    /\ ahead' = [ahead EXCEPT ![r] = <<>>] /\ Go(r, "expert")
    /\ UNCHANGED <<todo, host, held, home, copies, compute, issued>> /\ LayerOnly

(* An expert of the layer: its key, and its place in the store if it has one *)
NextKey(r) == <<Layer(r), Head(todo[r])>>
BeginExpert(r, store) ==
    /\ pc[r] = "expert" /\ todo[r] # <<>> /\ setup.store = store /\ Synced(r)
    /\ todo' = [todo EXCEPT ![r] = Tail(@)] /\ UNCHANGED <<pc, ahead>>
    /\ LayerOnly
Hit(r, g, after) ==
    LET b == gpu[r][Find(r, NextKey(r))].blk
    IN /\ Resident(r, g) /\ held' = [held EXCEPT ![r] = b]
       /\ Compute(r, <<Run(NextKey(r), b, step[r], after)>>)
       /\ UNCHANGED <<home, host, copies, issued>>

(* wait_stream: what is put on the compute stream from now on. *)
WaitStream(r) == IF setup.cuda THEN issued[r] ELSE 0

(* get: the compute stream waits for all the copies issued; a missing       *)
(* expert is copied on the compute stream itself.                           *)
Get(r) ==
    /\ BeginExpert(r, "official")
    /\ LET key == NextKey(r)
           after == WaitStream(r)
       IN IF key \in Keys(r) THEN Hit(r, MoveToEnd(gpu[r], Find(r, key)), after)
          ELSE LET b == Allocate(r, "compute") IN
                 /\ Resident(r, EvictIfNeeded(Append(gpu[r], [key |-> key, blk |-> b])))
                 /\ Took(r, key, b, "compute") /\ held' = [held EXCEPT ![r] = b]
                 /\ Compute(r, <<Copy(key, b, after), Run(key, b, step[r], after)>>)
                 /\ UNCHANGED <<copies, issued>>

(* HostOffloadBundleProvider: a missing expert is copied on the copy        *)
(* stream, and the compute stream waits for it.                             *)
Provide(r) ==
    /\ BeginExpert(r, "provider")
    /\ LET key == NextKey(r)
           stream == IF setup.cuda THEN "copy" ELSE "compute"
       IN IF key \in Keys(r) THEN Hit(r, MoveToEnd(gpu[r], Find(r, key)), 0)
          ELSE LET b == Allocate(r, stream) IN
                 /\ Resident(r, EvictIfNeeded(Append(gpu[r], [key |-> key, blk |-> b])))
                 /\ Took(r, key, b, stream) /\ held' = [held EXCEPT ![r] = b]
                 /\ IF setup.cuda
                    THEN /\ copies' = [copies EXCEPT ![r] = Append(@, Copy(key, b, 0))]
                         /\ issued' = [issued EXCEPT ![r] = @ + 1]
                         /\ Compute(r, <<Run(key, b, step[r], issued[r] + 1)>>)
                    ELSE /\ Compute(r, <<Copy(key, b, 0), Run(key, b, step[r], 0)>>)
                         /\ UNCHANGED <<copies, issued>>

(* make_indexer_bundle_provider: a dictionary that only grows. *)
ProvideFromIndexer(r) ==
    /\ BeginExpert(r, "indexer")
    /\ LET key == NextKey(r)
       IN IF key \in Keys(r) THEN Hit(r, gpu[r], 0)
          ELSE LET b == Allocate(r, "compute") IN
                 /\ Resident(r, Append(gpu[r], [key |-> key, blk |-> b]))
                 /\ Took(r, key, b, "compute") /\ held' = [held EXCEPT ![r] = b]
                 /\ Compute(r, <<Copy(key, b, 0), Run(key, b, step[r], 0)>>)
                 /\ UNCHANGED <<copies, issued>>

(* Mutant: a rank that ran no expert has nothing to reduce. *)
ReduceIfActive(r) ==
    IF setup.world > 1 /\ Active(r, route[step[r]]) # <<>> THEN <<Step("reduce", step[r])>> ELSE <<>>

Reduce(r) == IF setup.world > 1 THEN <<Step("reduce", step[r])>> ELSE <<>>

(* Mutant: the shared expert's output is part of what is reduced. *)
LastStepsSharedFirst(r) ==
    IF setup.store = "official" THEN <<Step("shared", step[r])>> \o Reduce(r) ELSE <<>>

LastSteps(r) ==
    IF setup.store = "official" THEN Reduce(r) \o <<Step("shared", step[r])>> ELSE <<>>

(* The end of the layer's forward; its locals are gone. *)
EndLayer(r) ==
    /\ pc[r] = "expert" /\ todo[r] = <<>> /\ Go(r, "gate")
    /\ Compute(r, LastSteps(r)) /\ held' = [held EXCEPT ![r] = NoBlock]
    /\ UNCHANGED <<ahead, todo, host, gpu, home, copies, issued>> /\ LayerOnly

LayerStep(r) ==
    \/ Gate(r) \/ PrefetchNext(r) \/ PrefetchEvicts(r)
    \/ Get(r) \/ Provide(r) \/ ProvideFromIndexer(r) \/ EndLayer(r)

Next ==
    \/ \E r \in Ranks : LoadStep(r) \/ LayerStep(r) \/ CopyDone(r) \/ KernelDone(r)
    \/ AllReduce

(* Every host goes on, and the streams execute what is put on them. *)
RankIds == UNION {0..(s.world - 1) : s \in Setups}
Fairness ==
    /\ WF_vars(AllReduce)
    /\ \A r \in RankIds :
         /\ WF_vars(r \in Ranks /\ (LoadStep(r) \/ LayerStep(r)))
         /\ WF_vars(r \in Ranks /\ CopyDone(r)) /\ WF_vars(r \in Ranks /\ KernelDone(r))

Spec == Init /\ [][Next]_vars /\ Fairness

-----------------------------------------------------------------------------

(* What the store hands out is right.  A kernel of an expert that may run   *)
(* finds that expert's weights in the memory it was given: its copy is      *)
(* done, and the eviction of the expert has not let a later copy overwrite  *)
(* them (the tensors are allocated on the copy stream without               *)
(* record_stream).  And the store keeps to max_resident_experts outside     *)
(* prefetch, which loads all the active experts before it evicts any.       *)
KernelReadsItsExpert ==
    \A r \in Ranks :
        /\ Runnable(r) /\ Head(compute[r]).op = "run" => memory[r][Head(compute[r]).blk] = Head(compute[r]).key
        /\ setup.store # "indexer" =>
              Len(gpu[r]) <= setup.max + (IF pc[r] = "prefetch" THEN Len(todo[r]) ELSE 0)

(* A layer whose work is done has added every expert of every token once,   *)
(* with the weight the router gave it, whichever rank ran it, and the       *)
(* shared expert once: on every rank the same.                              *)
LayerIsExact ==
    \A r \in Ranks : pc[r] = "gate" /\ step[r] > 0 /\ compute[r] = <<>> =>
        LET n == step[r]
        IN /\ \A t \in DOMAIN route[n] : y[r][n][t] = OneHotWeights(Experts, route[n][t])
           /\ shared[r][n] = IF setup.store = "official" THEN 1 ELSE 0

Loaded(r) == pc[r] \in {"gate", "prefetch", "expert"}

(* The ranks load alike.  The slices of a sharded tensor that they hold are *)
(* disjoint and are all of it, and each rank holds the whole of the others; *)
(* what is wrong with the model or the checkpoint stops every rank, so that *)
(* none goes on to wait for one that refused; and however a load ends,      *)
(* MoE.__init__ is the official module's own.                               *)
RanksLoadAlike ==
    /\ setup.loader = "sharded" /\ (\A r \in Ranks : Loaded(r)) =>
          \A i \in DOMAIN setup.tensors : \A p \in 0..(setup.tensors[i].size - 1) :
              Cardinality({r \in Ranks : slices[r][i][1] <= p /\ p < slices[r][i][2]})
                  = IF setup.tensors[i].sharded THEN 1 ELSE setup.world
    /\ \A r, q \in Ranks : why[r] \in {"ranges", "weights"} => ~Loaded(q)
    /\ \A r \in Ranks : Loaded(r) \/ pc[r] = "raised" => moeInit[r] = "original"

(* Unless a rank failed to load, all the layers are run to their end: no    *)
(* all_reduce is left waiting for a rank that does not come.                *)
LayersComplete ==
    <>(\/ \E r \in Ranks : pc[r] = "raised"
       \/ \A r \in Ranks : pc[r] = "gate" /\ step[r] = setup.steps /\ compute[r] = <<>>)
=============================================================================
